---- MODULE Spec2Model ----
(***************************************************************************)
(* The pose-to-recommendation pipeline of bike_fit_analyzer:               *)
(*   models/angles.py            Angle.is_in_range, PoseData.angle_values  *)
(*   guidance/bike_adjustments.py  BikeAdjustmentAnalyzer                  *)
(*   guidance/feedback.py          FeedbackGenerator                       *)
(*   core/analyzer.py              process_frame                           *)
(*   ui/settings_panel.py          the handlers of the angle settings      *)
(*   core/pose_detector.py         the side selection of the landmarks     *)
(*   config/settings_manager.py    SettingsManager                         *)
(*   core/angle_calculator.py      calculate_angle                         *)
(*   utils/visualization.py        Visualizer.get_color                    *)
(*   core/analyzer.py, utils/camera.py   BikeFitAnalyzer.run, open_camera  *)
(*                                                                         *)
(* Angle values are Python floats.  They are modelled in fixed point:      *)
(* an angle or a deviation is an integer number of 1/Scale degrees, and an *)
(* amount (deviation times 1.0, 0.5 or 0.3) is an integer number of        *)
(* 1/(Scale*Tenths) degrees, so the three scale factors stay exact.        *)
(***************************************************************************)
EXTENDS Integers, Sequences, FiniteSets

VARIABLES
    IDEAL_ANGLES,     \* config/settings.py IDEAL_ANGLES: angle-type -> <<min, max>>, in degrees
    pose_data,        \* PoseData.angle_values of the current frame: angle-type -> value
    rule_calls,       \* the rule-engine calls analyze_pose made, in call order
    emitted,          \* analyze_pose's local list before the sort of line 73
    recommendations,  \* the list analyze_pose returned
    in_range,         \* Angle.is_in_range(IDEAL_ANGLES) of every angle of the pose
    adjustments,      \* the list handed to generate_feedback
    feedback_items,   \* the list generate_feedback returned
    pc,               \* position in the frame: idle, pose, analyzed, checked, feedback
    settings,         \* SettingsManager.settings: angles, angles_enabled, show_guidance
    n_events,         \* the settings-panel events handled so far
    detected,         \* what detect_pose returned for the frame, before any filtering
    skipped,          \* history: the angle-types a frame left out although out of range
    landmarks,        \* the pose landmarks MediaPipe reported: x, y, visibility by name
    selected_points,  \* PoseData.landmarks: the points of the selected side, and the nose
    summary,          \* the report generate_summary returned, part by part
    observers,        \* SettingsManager.observers, in registration order
    notified,         \* the observer calls made by the last operation on the manager
    settings_file,    \* the JSON document save_to_file wrote, if any
    saved_settings,   \* history: the settings as they were when the file was written
    calculation,      \* the last call of calculate_angle: its points and what it returned
    last_set,         \* history: the last direct call of SettingsManager.set
    first_call,       \* history: a frame that was processed, with its inputs and results
    cap,              \* BikeFitAnalyzer.run: the local cap, a capture handle or None
    camera_id,        \* BikeFitAnalyzer.run: the local camera_id
    current_mirror,   \* BikeFitAnalyzer.run: the local current_mirror
    run_pc,           \* BikeFitAnalyzer.run: where the call is
    held,             \* the cameras whose capture was opened and not released yet
    ui_cleaned,       \* UIRenderer.cleanup has run
    last_key,         \* history: the key the last iteration of run's loop got
    read_from,        \* history: what the last cap.read() was called on
    pose_angles       \* PoseData.angles: the three points each angle is measured on

\* the state of the settings panel and of process_frame
frame_vars == <<settings, n_events, detected, skipped>>

\* the state of PoseDetector._process_landmarks
side_vars == <<landmarks, selected_points, pose_angles>>

\* the state of FeedbackGenerator.generate_summary
report_vars == <<summary>>

\* the state of the SettingsManager besides its settings
manager_vars == <<observers, notified, settings_file, saved_settings>>

angle_vars == <<calculation>>

call_vars == <<last_set>>

memo_vars == <<first_call>>

camera_vars == <<cap, camera_id, current_mirror, run_pc, held, ui_cleaned, last_key,
                 read_from>>

vars == <<IDEAL_ANGLES, pose_data, rule_calls, emitted, recommendations,
          in_range, adjustments, feedback_items, pc, frame_vars, side_vars, report_vars,
          manager_vars, angle_vars, call_vars, memo_vars,
          camera_vars>>

(***************************************************************************)
(* Bounds and fixed-point units                                            *)
(***************************************************************************)
\* units per degree: 2 makes half degrees (4.5, 64.5, 7.5) representable
Scale == 2

\* the scale factors 1.0, 0.5 and 0.3 are whole tenths
Tenths == 10

\* the largest value calculate_angle stores (angle_calculator.py: 360 - angle above 180)
MaxAngle == 180

Deg(x) == x * Scale

Range(s) == {s[i] : i \in 1..Len(s)}

(***************************************************************************)
(* config/settings.py                                                      *)
(***************************************************************************)
DEFAULT_IDEAL_ANGLES ==
    [neck_angle     |-> <<65, 75>>,
     shoulder_angle |-> <<60, 110>>,
     hip_angle      |-> <<65, 145>>,
     knee_angle     |-> <<115, 180>>,
     elbow_angle    |-> <<150, 160>>]

BIKE_TYPES ==
    [road   |-> [neck_angle |-> <<65, 75>>, shoulder_angle |-> <<70, 90>>,
                 hip_angle |-> <<65, 75>>, knee_angle |-> <<145, 155>>,
                 elbow_angle |-> <<155, 165>>],
     mtb    |-> [neck_angle |-> <<70, 80>>, shoulder_angle |-> <<80, 100>>,
                 hip_angle |-> <<75, 85>>, knee_angle |-> <<135, 145>>,
                 elbow_angle |-> <<145, 155>>],
     hybrid |-> [neck_angle |-> <<75, 85>>, shoulder_angle |-> <<90, 110>>,
                 hip_angle |-> <<80, 100>>, knee_angle |-> <<135, 145>>,
                 elbow_angle |-> <<145, 155>>],
     tt     |-> [neck_angle |-> <<55, 65>>, shoulder_angle |-> <<60, 80>>,
                 hip_angle |-> <<55, 65>>, knee_angle |-> <<145, 155>>,
                 elbow_angle |-> <<155, 165>>],
     gravel |-> [neck_angle |-> <<68, 78>>, shoulder_angle |-> <<75, 95>>,
                 hip_angle |-> <<70, 80>>, knee_angle |-> <<140, 150>>,
                 elbow_angle |-> <<150, 160>>]]

\* core/pose_detector.py: the order in which _process_landmarks fills the angles dict,
\* which is the iteration order of pose_data.angle_values.items()
AngleOrder == <<"neck_angle", "shoulder_angle", "elbow_angle", "hip_angle", "knee_angle">>

AngleTypes == Range(AngleOrder)

\* an angle-type that has no entry in IDEAL_ANGLES and no rule
ForeignType == "ankle_angle"

\* the iteration order of a pose's angles: a foreign angle, when a caller puts one in,
\* comes after the five the detector creates
PoseOrder == AngleOrder \o <<ForeignType>>

(***************************************************************************)
(* models/angles.py                                                        *)
(***************************************************************************)
is_in_range_strict(angle_type, value, ideal_ranges) ==
    IF angle_type \in DOMAIN ideal_ranges
    THEN LET min_val == ideal_ranges[angle_type][1]
             max_val == ideal_ranges[angle_type][2]
         IN  Deg(min_val) < value /\ value < Deg(max_val)
    ELSE FALSE

is_in_range(angle_type, value, ideal_ranges) ==
    IF angle_type \in DOMAIN ideal_ranges
    THEN LET min_val == ideal_ranges[angle_type][1]
             max_val == ideal_ranges[angle_type][2]
         IN  Deg(min_val) <= value /\ value <= Deg(max_val)
    ELSE FALSE

(***************************************************************************)
(* guidance/bike_adjustments.py                                            *)
(***************************************************************************)
minor_threshold == 5
moderate_threshold == 10

AdjustmentRecommendation(component, direction, amount, priority, description, angles_affected) ==
    [component |-> component, direction |-> direction, amount |-> amount,
     priority |-> priority, description |-> description,
     angles_affected |-> angles_affected]

\* deviation * 1.0, deviation * 0.5, deviation * 0.3, in 1/(Scale*Tenths) degrees
times_1_0(deviation) == deviation * Tenths
times_0_5(deviation) == deviation * 5
times_0_3(deviation) == deviation * 3

severity_tier_exclusive(deviation) ==
    IF deviation <= Deg(minor_threshold)
    THEN [priority |-> 3, amount_text |-> "slightly"]
    ELSE IF deviation <= Deg(moderate_threshold)
    THEN [priority |-> 2, amount_text |-> "moderately"]
    ELSE [priority |-> 1, amount_text |-> "significantly"]

\* lines 90-99 and, identically, 186-195
severity_tier(deviation) ==
    IF deviation < Deg(minor_threshold)
    THEN [priority |-> 3, amount_text |-> "slightly"]
    ELSE IF deviation < Deg(moderate_threshold)
    THEN [priority |-> 2, amount_text |-> "moderately"]
    ELSE [priority |-> 1, amount_text |-> "significantly"]

\* f"Raise handlebars {amount_text} to reduce neck flexion": the f-string as its parts
Text3(head, amount_text, tail) == <<head, amount_text, tail>>
Text1(text) == <<text>>

\* ---- _generate_recommendations_for_low_angle, one definition per branch ----
neck_low_bonus_same_priority(deviation, priority, amount_text) ==
    <<AdjustmentRecommendation("handlebar", "raise", times_1_0(deviation), priority,
          Text3("Raise handlebars", amount_text, "to reduce neck flexion"),
          <<"neck_angle", "shoulder_angle">>)>>
    \o (IF priority < 3
        THEN <<AdjustmentRecommendation("stem", "shorten", times_0_5(deviation), priority,
                   Text1("Consider a shorter stem to bring handlebars closer"),
                   <<"neck_angle", "shoulder_angle">>)>>
        ELSE <<>>)

neck_low(deviation, priority, amount_text) ==
    <<AdjustmentRecommendation("handlebar", "raise", times_1_0(deviation), priority,
          Text3("Raise handlebars", amount_text, "to reduce neck flexion"),
          <<"neck_angle", "shoulder_angle">>)>>
    \o (IF priority < 3
        THEN <<AdjustmentRecommendation("stem", "shorten", times_0_5(deviation), priority + 1,
                   Text1("Consider a shorter stem to bring handlebars closer"),
                   <<"neck_angle", "shoulder_angle">>)>>
        ELSE <<>>)

hip_low(deviation, priority, amount_text) ==
    <<AdjustmentRecommendation("saddle", "back", times_0_3(deviation), priority,
          Text3("Move saddle", amount_text, "backward to open hip angle"),
          <<"hip_angle">>),
      AdjustmentRecommendation("handlebar", "raise", times_0_5(deviation), priority,
          Text3("Raise handlebars", amount_text, "to open hip angle"),
          <<"hip_angle", "shoulder_angle">>)>>

knee_low_lowering(deviation, priority, amount_text) ==
    <<AdjustmentRecommendation("saddle", "lower", times_0_3(deviation), priority,
          Text3("Lower saddle", amount_text, "to reduce knee extension"),
          <<"knee_angle", "hip_angle">>)>>

knee_low(deviation, priority, amount_text) ==
    <<AdjustmentRecommendation("saddle", "raise", times_0_3(deviation), priority,
          Text3("Raise saddle", amount_text, "to increase knee extension"),
          <<"knee_angle", "hip_angle">>)>>

shoulder_low(deviation, priority, amount_text) ==
    <<AdjustmentRecommendation("handlebar", "raise", times_0_5(deviation), priority,
          Text3("Raise handlebars", amount_text, "to open shoulder angle"),
          <<"shoulder_angle", "neck_angle">>)>>

elbow_low(deviation, priority, amount_text) ==
    <<AdjustmentRecommendation("stem", "extend", times_0_3(deviation), priority,
          Text1("Consider a longer stem to increase elbow extension"),
          <<"elbow_angle", "shoulder_angle">>)>>

generate_recommendations_for_low_angle(angle_type, deviation) ==
    LET tier == severity_tier(deviation)
        priority == tier.priority
        amount_text == tier.amount_text
    IN  IF angle_type = "neck_angle" THEN neck_low(deviation, priority, amount_text)
        ELSE IF angle_type = "hip_angle" THEN hip_low(deviation, priority, amount_text)
        ELSE IF angle_type = "knee_angle" THEN knee_low(deviation, priority, amount_text)
        ELSE IF angle_type = "shoulder_angle"
             THEN shoulder_low(deviation, priority, amount_text)
        ELSE IF angle_type = "elbow_angle" THEN elbow_low(deviation, priority, amount_text)
        ELSE <<>>

\* ---- _generate_recommendations_for_high_angle, one definition per branch ----
neck_high(deviation, priority, amount_text) ==
    <<AdjustmentRecommendation("handlebar", "lower", times_1_0(deviation), priority,
          Text3("Lower handlebars", amount_text, "to increase neck flexion"),
          <<"neck_angle", "shoulder_angle">>)>>

hip_high_bonus_moderate_only(deviation, priority, amount_text) ==
    <<AdjustmentRecommendation("saddle", "forward", times_0_3(deviation), priority,
          Text3("Move saddle", amount_text, "forward to close hip angle"),
          <<"hip_angle">>)>>
    \o (IF priority = 2
        THEN <<AdjustmentRecommendation("handlebar", "lower", times_0_5(deviation), priority,
                   Text3("Lower handlebars", amount_text, "to close hip angle"),
                   <<"hip_angle", "shoulder_angle">>)>>
        ELSE <<>>)

hip_high(deviation, priority, amount_text) ==
    <<AdjustmentRecommendation("saddle", "forward", times_0_3(deviation), priority,
          Text3("Move saddle", amount_text, "forward to close hip angle"),
          <<"hip_angle">>)>>
    \o (IF priority < 3
        THEN <<AdjustmentRecommendation("handlebar", "lower", times_0_5(deviation), priority,
                   Text3("Lower handlebars", amount_text, "to close hip angle"),
                   <<"hip_angle", "shoulder_angle">>)>>
        ELSE <<>>)

knee_high(deviation, priority, amount_text) ==
    <<AdjustmentRecommendation("saddle", "lower", times_0_3(deviation), priority,
          Text3("Lower saddle", amount_text, "to reduce knee extension"),
          <<"knee_angle", "hip_angle">>)>>

shoulder_high_bonus_more_urgent(deviation, priority, amount_text) ==
    <<AdjustmentRecommendation("handlebar", "lower", times_0_5(deviation), priority,
          Text3("Lower handlebars", amount_text, "to close shoulder angle"),
          <<"shoulder_angle", "neck_angle">>)>>
    \o (IF priority < 3
        THEN <<AdjustmentRecommendation("stem", "extend", times_0_3(deviation), priority - 1,
                   Text1("Consider a longer stem to increase reach"),
                   <<"shoulder_angle">>)>>
        ELSE <<>>)

shoulder_high(deviation, priority, amount_text) ==
    <<AdjustmentRecommendation("handlebar", "lower", times_0_5(deviation), priority,
          Text3("Lower handlebars", amount_text, "to close shoulder angle"),
          <<"shoulder_angle", "neck_angle">>)>>
    \o (IF priority < 3
        THEN <<AdjustmentRecommendation("stem", "extend", times_0_3(deviation), priority + 1,
                   Text1("Consider a longer stem to increase reach"),
                   <<"shoulder_angle">>)>>
        ELSE <<>>)

elbow_high(deviation, priority, amount_text) ==
    <<AdjustmentRecommendation("stem", "shorten", times_0_3(deviation), priority,
          Text1("Consider a shorter stem to decrease elbow extension"),
          <<"elbow_angle", "shoulder_angle">>)>>

generate_recommendations_for_high_angle(angle_type, deviation) ==
    LET tier == severity_tier(deviation)
        priority == tier.priority
        amount_text == tier.amount_text
    IN  IF angle_type = "neck_angle" THEN neck_high(deviation, priority, amount_text)
        ELSE IF angle_type = "hip_angle" THEN hip_high(deviation, priority, amount_text)
        ELSE IF angle_type = "knee_angle" THEN knee_high(deviation, priority, amount_text)
        ELSE IF angle_type = "shoulder_angle"
             THEN shoulder_high(deviation, priority, amount_text)
        ELSE IF angle_type = "elbow_angle" THEN elbow_high(deviation, priority, amount_text)
        ELSE <<>>

\* list.sort(key=lambda r: r.priority): Python's sort is stable, so an item goes
\* behind every item already placed whose priority is not larger
InsertByPriority_before_equals(sorted, x) ==
    LET k == Cardinality({i \in 1..Len(sorted) : sorted[i].priority < x.priority})
    IN  SubSeq(sorted, 1, k) \o <<x>> \o SubSeq(sorted, k + 1, Len(sorted))

InsertByPriority(sorted, x) ==
    LET k == Cardinality({i \in 1..Len(sorted) : sorted[i].priority <= x.priority})
    IN  SubSeq(sorted, 1, k) \o <<x>> \o SubSeq(sorted, k + 1, Len(sorted))

RECURSIVE SortPrefix(_, _)
SortPrefix(s, n) ==
    IF n = 0 THEN <<>> ELSE InsertByPriority(SortPrefix(s, n - 1), s[n])

SortByPriority(s) == SortPrefix(s, Len(s))

\* the angle-types of a pose in the dict's iteration order
RECURSIVE ItemsFrom(_, _)
ItemsFrom(angle_values, i) ==
    IF i > Len(PoseOrder) THEN <<>>
    ELSE (IF PoseOrder[i] \in DOMAIN angle_values THEN <<PoseOrder[i]>> ELSE <<>>)
         \o ItemsFrom(angle_values, i + 1)

Items(angle_values) == ItemsFrom(angle_values, 1)

\* lines 65 and 68: the two tests of the classification
is_below_inclusive(angle_value, min_val) == angle_value <= min_val
is_below(angle_value, min_val) == angle_value < min_val

is_above_inclusive(angle_value, max_val) == angle_value >= max_val
is_above(angle_value, max_val) == angle_value > max_val

\* lines 66 and 69: the deviation handed to the rule engine
deviation_below(angle_value, min_val) == min_val - angle_value

deviation_above_reversed(angle_value, max_val) == max_val - angle_value
deviation_above(angle_value, max_val) == angle_value - max_val

\* one iteration of analyze_pose's loop (lines 60-70): the rule-engine call it makes, if any
RuleCall(angle_type, angle_value) ==
    IF angle_type \in DOMAIN IDEAL_ANGLES
    THEN LET min_val == Deg(IDEAL_ANGLES[angle_type][1])
             max_val == Deg(IDEAL_ANGLES[angle_type][2])
         IN  IF is_below(angle_value, min_val)
             THEN LET deviation == deviation_below(angle_value, min_val)
                  IN  <<[direction |-> "low", angle_type |-> angle_type,
                         deviation |-> deviation,
                         result |-> generate_recommendations_for_low_angle(
                                        angle_type, deviation)]>>
             ELSE IF is_above(angle_value, max_val)
             THEN LET deviation == deviation_above(angle_value, max_val)
                  IN  <<[direction |-> "high", angle_type |-> angle_type,
                         deviation |-> deviation,
                         result |-> generate_recommendations_for_high_angle(
                                        angle_type, deviation)]>>
             ELSE <<>>
    ELSE <<>>

RECURSIVE RuleCalls(_, _)
RuleCalls(angle_values, items) ==
    IF items = <<>> THEN <<>>
    ELSE RuleCall(Head(items), angle_values[Head(items)])
         \o RuleCalls(angle_values, Tail(items))

\* recommendations.extend(...) over the calls
RECURSIVE Extend(_)
Extend(calls) ==
    IF calls = <<>> THEN <<>> ELSE Head(calls).result \o Extend(Tail(calls))

\* a recommendation list that outlives the call: each call adds to what is there
analyze_pose_accumulating(angle_values) ==
    SortByPriority(recommendations \o Extend(RuleCalls(angle_values, Items(angle_values))))

analyze_pose(angle_values) ==
    SortByPriority(Extend(RuleCalls(angle_values, Items(angle_values))))

(***************************************************************************)
(* guidance/feedback.py                                                    *)
(***************************************************************************)
FeedbackItem(message, type, priority) ==
    [message |-> message, type |-> type, priority |-> priority]

\* the fixed thresholds of lines 98, 105 and 112, in degrees
neck_warning_below == 65
hip_warning_below == 65
knee_warning_above == 170

\* the priority of the trailing tip (line 123)
tip_priority == 5

success_item ==
    FeedbackItem(<<"Great job! Your bike fit looks good. All angles are within ideal ranges.">>,
                 "success", 1)

summary_warning_item ==
    FeedbackItem(<<"Your bike fit needs significant adjustment. Follow the recommendations to improve comfort and performance.">>,
                 "warning", 1)

summary_info_item ==
    FeedbackItem(<<"Your bike fit is close to ideal. Some minor adjustments are recommended.">>,
                 "info", 1)

neck_warning_item ==
    FeedbackItem(<<"Your neck is excessively flexed, which may cause neck strain. Try raising your handlebars.">>,
                 "warning", 2)

hip_warning_item ==
    FeedbackItem(<<"Your hip angle is very closed, which may reduce power. Try adjusting your saddle position.">>,
                 "warning", 2)

knee_warning_item ==
    FeedbackItem(<<"Your knee is nearly locked at full extension, which may cause knee pain. Lower your saddle slightly.">>,
                 "warning", 2)

tip_item ==
    FeedbackItem(<<"Tip: Remember to pedal with a smooth, circular motion and engage your core muscles.">>,
                 "info", tip_priority)

\* str.title() on the three component names
Title(component) ==
    CASE component = "saddle" -> "Saddle"
      [] component = "handlebar" -> "Handlebar"
      [] component = "stem" -> "Stem"
      [] OTHER -> component

summary_item_from_priority_2(adjs) ==
    IF \E i \in 1..Len(adjs) : adjs[i].priority <= 2
    THEN summary_warning_item
    ELSE summary_info_item

\* lines 49-62: the summary item
summary_item(adjs) ==
    IF \E i \in 1..Len(adjs) : adjs[i].priority = 1
    THEN summary_warning_item
    ELSE summary_info_item

\* lines 64-70: the keys of component_adjustments in insertion order
RECURSIVE ComponentsFrom(_, _, _)
ComponentsFrom(adjs, i, seen) ==
    IF i > Len(adjs) THEN <<>>
    ELSE IF adjs[i].component \in seen THEN ComponentsFrom(adjs, i + 1, seen)
    ELSE <<adjs[i].component>>
         \o ComponentsFrom(adjs, i + 1, seen \cup {adjs[i].component})

MinByPriority_last(adj_list) ==
    LET i == CHOOSE j \in 1..Len(adj_list) :
                 /\ \A k \in 1..Len(adj_list) : adj_list[j].priority <= adj_list[k].priority
                 /\ \A k \in (j + 1)..Len(adj_list) : adj_list[k].priority > adj_list[j].priority
    IN  adj_list[i]

\* min(adj_list, key=lambda x: x.priority): the first item of the lowest priority
MinByPriority(adj_list) ==
    LET i == CHOOSE j \in 1..Len(adj_list) :
                 /\ \A k \in 1..Len(adj_list) : adj_list[j].priority <= adj_list[k].priority
                 /\ \A k \in 1..(j - 1) : adj_list[k].priority > adj_list[j].priority
    IN  adj_list[i]

\* lines 73-92: the item of one component
component_item(adjs, component) ==
    LET IsOf(a) == a.component = component
        adjustment == MinByPriority(SelectSeq(adjs, IsOf))
        msg_type == IF adjustment.priority = 1 THEN "warning"
                    ELSE IF adjustment.priority = 2 THEN "warning"
                    ELSE "info"
    IN  FeedbackItem(<<Title(component), ": ">> \o adjustment.description,
                     msg_type, adjustment.priority)

component_items(adjs) ==
    LET components == ComponentsFrom(adjs, 1, {})
    IN  [i \in 1..Len(components) |-> component_item(adjs, components[i])]

\* the direct checks, were they to follow the configured ranges
posture_items_from_ranges(angles) ==
    (IF "neck_angle" \in DOMAIN angles
        /\ angles["neck_angle"] < Deg(IDEAL_ANGLES["neck_angle"][1])
     THEN <<neck_warning_item>> ELSE <<>>)
    \o (IF "hip_angle" \in DOMAIN angles
           /\ angles["hip_angle"] < Deg(IDEAL_ANGLES["hip_angle"][1])
        THEN <<hip_warning_item>> ELSE <<>>)
    \o (IF "knee_angle" \in DOMAIN angles
           /\ angles["knee_angle"] > Deg(IDEAL_ANGLES["knee_angle"][2])
        THEN <<knee_warning_item>> ELSE <<>>)

\* lines 94-117: the fixed direct checks on the pose
posture_items(angles) ==
    (IF "neck_angle" \in DOMAIN angles /\ angles["neck_angle"] < Deg(neck_warning_below)
     THEN <<neck_warning_item>> ELSE <<>>)
    \o (IF "hip_angle" \in DOMAIN angles /\ angles["hip_angle"] < Deg(hip_warning_below)
        THEN <<hip_warning_item>> ELSE <<>>)
    \o (IF "knee_angle" \in DOMAIN angles /\ angles["knee_angle"] > Deg(knee_warning_above)
        THEN <<knee_warning_item>> ELSE <<>>)

generate_feedback_tip_first(angles, adjs) ==
    IF adjs = <<>>
    THEN <<success_item>>
    ELSE SortByPriority(<<tip_item, summary_item(adjs)>> \o posture_items(angles)
                        \o component_items(adjs))

generate_feedback_no_short_circuit(angles, adjs) ==
    SortByPriority(<<summary_item(adjs)>> \o component_items(adjs)
                   \o posture_items(angles) \o <<tip_item>>)

generate_feedback(angles, adjs) ==
    IF adjs = <<>>
    THEN <<success_item>>
    ELSE SortByPriority(<<summary_item(adjs)>> \o component_items(adjs)
                        \o posture_items(angles) \o <<tip_item>>)

(***************************************************************************)
(* The frames of one session                                               *)
(***************************************************************************)
NoPose == [t \in {} |-> 0]

\* config/settings_manager.py, SettingsManager.__init__: the keys process_frame reads
DefaultSettings ==
    [angles |-> DEFAULT_IDEAL_ANGLES,
     angles_enabled |-> [k \in DOMAIN DEFAULT_IDEAL_ANGLES |-> TRUE],
     show_guidance |-> TRUE]

\* the observers registered while the application is built: BikeFitAnalyzer.__init__
\* (core/analyzer.py:25) and SettingsPanel.__init__ (ui/settings_panel.py:52)
StartupObservers == <<"BikeFitAnalyzer._on_settings_changed",
                      "SettingsPanel._on_settings_changed">>

\* no file has been written
NoFile == [json |-> "none"]

ManagerVarsInit ==
    /\ observers = StartupObservers
    /\ notified = <<>>
    /\ settings_file = NoFile
    /\ saved_settings = DefaultSettings

\* models/angles.py, Point: pixel coordinates
Point(x, y) == [x |-> x, y |-> y]

\* calculate_angle has not been called
NoCalculation == [a |-> Point(0, 0), b |-> Point(0, 0), c |-> Point(0, 0),
                  raw |-> 0, angle |-> 0, reverse |-> 0]

AngleVarsInit == calculation = NoCalculation

\* set has not been called directly
NoSet == [key |-> "", value |-> <<>>, before |-> DefaultSettings,
          registered |-> <<>>]

CallVarsInit == last_set = NoSet

\* None, where a cv2.VideoCapture is expected
NoCapture == [none |-> TRUE, camera |-> 0]

\* the cv2.VideoCapture open_camera returns for a camera that opened
VideoCapture(id) == [none |-> FALSE, camera |-> id]

\* cap.read() has not been called
NoRead == [handle |-> "nothing", camera |-> 0]

\* before BikeFitAnalyzer.run is called; mirror=True is the default argument
CameraVarsInit ==
    /\ cap = NoCapture
    /\ camera_id = 0
    /\ current_mirror = TRUE
    /\ run_pc = "not running"
    /\ held = {}
    /\ ui_cleaned = FALSE
    /\ last_key = "none"
    /\ read_from = NoRead

\* detect_pose's result when no landmarks were found (None)
NoDetection == [found |-> FALSE, angles |-> NoPose]

\* no report generated yet
NoSummary == [overall |-> <<>>, measurements |-> <<>>, recommendations |-> <<>>]

\* no frame is remembered
NoCall == [taken |-> FALSE, between |-> FALSE, pose |-> NoPose, adjustments |-> <<>>,
           recommendations |-> <<>>, feedback_items |-> <<>>, summary |-> NoSummary]

MemoVarsInit == first_call = NoCall

ReportVarsInit == summary = NoSummary

\* no landmarks processed yet
NoLandmarks == [n \in {} |-> 0]

SideVarsInit ==
    /\ landmarks = NoLandmarks
    /\ selected_points = NoLandmarks
    /\ pose_angles = NoLandmarks

FrameVarsInit ==
    /\ settings = DefaultSettings
    /\ n_events = 0
    /\ detected = NoDetection
    /\ skipped = {}

AngleValues == 0..Deg(MaxAngle)

\* deviations of one unit, of exactly 5.0 and of exactly 10.0 degrees
SampleOffsets == {1, Deg(minor_threshold), Deg(moderate_threshold)}

\* the values a frame's angle of type t is drawn from: around both ends of its
\* ideal range and around the fixed threshold of the knee check
PoseValues(t) ==
    LET min_val == Deg(DEFAULT_IDEAL_ANGLES[t][1])
        max_val == Deg(DEFAULT_IDEAL_ANGLES[t][2])
    IN  ({min_val, max_val}
         \cup {min_val - o : o \in SampleOffsets}
         \cup {max_val + o : o \in SampleOffsets}
         \cup (IF t = "knee_angle"
               THEN {Deg(knee_warning_above), Deg(knee_warning_above + minor_threshold)}
               ELSE {}))
        \cap AngleValues

Poses ==
    {[neck_angle |-> n, shoulder_angle |-> s, elbow_angle |-> e, hip_angle |-> h,
      knee_angle |-> k] :
        n \in PoseValues("neck_angle"), s \in PoseValues("shoulder_angle"),
        e \in PoseValues("elbow_angle"), h \in PoseValues("hip_angle"),
        k \in PoseValues("knee_angle")}

Init ==
    /\ IDEAL_ANGLES = DEFAULT_IDEAL_ANGLES
    /\ FrameVarsInit
    /\ SideVarsInit
    /\ ReportVarsInit
    /\ ManagerVarsInit
    /\ AngleVarsInit
    /\ CallVarsInit
    /\ MemoVarsInit
    /\ CameraVarsInit
    /\ pose_data = NoPose
    /\ rule_calls = <<>>
    /\ emitted = <<>>
    /\ recommendations = <<>>
    /\ in_range = NoPose
    /\ adjustments = <<>>
    /\ feedback_items = <<>>
    /\ pc = "idle"

\* core/pose_detector.py: a frame's pose
DetectPose ==
    /\ pc = "idle"
    /\ \E p \in Poses : pose_data' = p
    /\ pc' = "pose"
    /\ UNCHANGED frame_vars
    /\ UNCHANGED side_vars
    /\ UNCHANGED report_vars
    /\ UNCHANGED manager_vars
    /\ UNCHANGED angle_vars
    /\ UNCHANGED call_vars
    /\ UNCHANGED memo_vars
    /\ UNCHANGED camera_vars
    /\ UNCHANGED <<IDEAL_ANGLES, rule_calls, emitted, recommendations, in_range,
                   adjustments, feedback_items>>

\* BikeAdjustmentAnalyzer.analyze_pose(pose_data)
AnalyzePose ==
    /\ pc = "pose"
    /\ rule_calls' = RuleCalls(pose_data, Items(pose_data))
    /\ emitted' = Extend(rule_calls')
    /\ recommendations' = analyze_pose(pose_data)
    /\ pc' = "analyzed"
    /\ UNCHANGED frame_vars
    /\ UNCHANGED side_vars
    /\ UNCHANGED report_vars
    /\ UNCHANGED manager_vars
    /\ UNCHANGED angle_vars
    /\ UNCHANGED call_vars
    /\ UNCHANGED memo_vars
    /\ UNCHANGED camera_vars
    /\ UNCHANGED <<IDEAL_ANGLES, pose_data, in_range, adjustments, feedback_items>>

\* Angle.is_in_range(IDEAL_ANGLES) of every angle of the pose, as the overlay asks it
DrawAngles ==
    /\ pc = "analyzed"
    /\ in_range' = [t \in DOMAIN pose_data |-> is_in_range(t, pose_data[t], IDEAL_ANGLES)]
    /\ pc' = "drawn"
    /\ UNCHANGED frame_vars
    /\ UNCHANGED side_vars
    /\ UNCHANGED report_vars
    /\ UNCHANGED manager_vars
    /\ UNCHANGED angle_vars
    /\ UNCHANGED call_vars
    /\ UNCHANGED memo_vars
    /\ UNCHANGED camera_vars
    /\ UNCHANGED <<IDEAL_ANGLES, pose_data, rule_calls, emitted, recommendations,
                   adjustments, feedback_items>>

\* FeedbackGenerator.generate_feedback(pose_data, adjustments), the list being the
\* analysis of the frame or a leading slice of it (adjustments[:n])
GenerateFeedback ==
    /\ pc = "analyzed"
    /\ \E n \in 0..Len(recommendations) :
           /\ adjustments' = SubSeq(recommendations, 1, n)
           /\ feedback_items' = generate_feedback(pose_data, adjustments')
    /\ pc' = "feedback"
    /\ UNCHANGED frame_vars
    /\ UNCHANGED side_vars
    /\ UNCHANGED report_vars
    /\ UNCHANGED manager_vars
    /\ UNCHANGED angle_vars
    /\ UNCHANGED call_vars
    /\ UNCHANGED memo_vars
    /\ UNCHANGED camera_vars
    /\ UNCHANGED <<IDEAL_ANGLES, pose_data, rule_calls, emitted, recommendations, in_range>>

\* the frame's values are dropped before the next frame
NextFrame ==
    /\ pc = "feedback"
    /\ pose_data' = NoPose
    /\ rule_calls' = <<>>
    /\ emitted' = <<>>
    /\ recommendations' = <<>>
    /\ adjustments' = <<>>
    /\ feedback_items' = <<>>
    /\ pc' = "idle"
    /\ UNCHANGED frame_vars
    /\ UNCHANGED side_vars
    /\ UNCHANGED report_vars
    /\ UNCHANGED manager_vars
    /\ UNCHANGED angle_vars
    /\ UNCHANGED call_vars
    /\ UNCHANGED memo_vars
    /\ UNCHANGED camera_vars
    /\ UNCHANGED <<IDEAL_ANGLES, in_range>>

Next == DetectPose \/ AnalyzePose \/ GenerateFeedback \/ NextFrame

Spec == Init /\ [][Next]_vars

(***************************************************************************)
(* The rule engine and the classification on their whole domain: one angle *)
(* of any type and any value, against the shipped range tables             *)
(***************************************************************************)
\* a table with every range collapsed to its minimum (min = max)
Collapsed(table) == [t \in DOMAIN table |-> <<table[t][1], table[t][1]>>]

RangeTables ==
    {DEFAULT_IDEAL_ANGLES, Collapsed(DEFAULT_IDEAL_ANGLES)}
    \cup {BIKE_TYPES[b] : b \in DOMAIN BIKE_TYPES}

RuleInit ==
    /\ IDEAL_ANGLES \in RangeTables
    /\ FrameVarsInit
    /\ SideVarsInit
    /\ ReportVarsInit
    /\ ManagerVarsInit
    /\ AngleVarsInit
    /\ CallVarsInit
    /\ MemoVarsInit
    /\ CameraVarsInit
    /\ \E t \in AngleTypes : \E v \in AngleValues : pose_data = [x \in {t} |-> v]
    /\ rule_calls = <<>>
    /\ emitted = <<>>
    /\ recommendations = <<>>
    /\ in_range = NoPose
    /\ adjustments = <<>>
    /\ feedback_items = <<>>
    /\ pc = "pose"

RuleNext == AnalyzePose \/ DrawAngles

RuleSpec == RuleInit /\ [][RuleNext]_vars

(***************************************************************************)
(* Properties                                                              *)
(***************************************************************************)
Analyzed == pc \in {"analyzed", "drawn", "feedback"}

\* the ideal range of an angle-type, in units
MinOf(t) == IDEAL_ANGLES[t][1] * Scale
MaxOf(t) == IDEAL_ANGLES[t][2] * Scale

\* the tier of a deviation d as the rule table states it
TierPriority(d) == IF d >= 10 * Scale THEN 1 ELSE IF d >= 5 * Scale THEN 2 ELSE 3
TierQualifier(d) ==
    IF d >= 10 * Scale THEN "significantly"
    ELSE IF d >= 5 * Scale THEN "moderately" ELSE "slightly"

\* a recommendation's description names the qualifier q wherever it names one
Qualified(r, q) == Len(r.description) = 3 => r.description[2] = q

\* C1: in every rule-engine call, for every angle-type and both directions, the tier
\* follows from the deviation d alone: d < 5.0 gives priority 3 and "slightly",
\* 5.0 <= d < 10.0 gives priority 2 and "moderately", d >= 10.0 gives priority 1 and
\* "significantly" (5.0 and 10.0 fall in the more urgent tier).  The first
\* recommendation of the call carries the tier priority and every description that
\* names a qualifier names the tier's.
C1_SeverityTier ==
    \A i \in 1..Len(rule_calls) :
        LET c == rule_calls[i] IN
        /\ c.result # <<>>
        /\ c.result[1].priority = TierPriority(c.deviation)
        /\ \A j \in 1..Len(c.result) : Qualified(c.result[j], TierQualifier(c.deviation))
        /\ \E j \in 1..Len(c.result) : Len(c.result[j].description) = 3
              \/ c.angle_type = "elbow_angle"

\* C1 witness: a deviation of exactly 10.0 above the maximum was put in tier 1
C1_Witness ==
    /\ Analyzed
    /\ \E i \in 1..Len(rule_calls) :
           /\ rule_calls[i].direction = "high"
           /\ rule_calls[i].deviation = 10 * Scale
           /\ rule_calls[i].result[1].priority = 1
           /\ rule_calls[i].result[1].description[2] = "significantly"

\* the unconditional rows of the rule table: <<component, direction, tenths of d>>
RuleTable(t, direction) ==
    IF direction = "low" THEN
        CASE t = "neck_angle"     -> << <<"handlebar", "raise", 10>> >>
          [] t = "hip_angle"      -> << <<"saddle", "back", 3>>, <<"handlebar", "raise", 5>> >>
          [] t = "knee_angle"     -> << <<"saddle", "raise", 3>> >>
          [] t = "shoulder_angle" -> << <<"handlebar", "raise", 5>> >>
          [] t = "elbow_angle"    -> << <<"stem", "extend", 3>> >>
    ELSE
        CASE t = "neck_angle"     -> << <<"handlebar", "lower", 10>> >>
          [] t = "hip_angle"      -> << <<"saddle", "forward", 3>> >>
          [] t = "knee_angle"     -> << <<"saddle", "lower", 3>> >>
          [] t = "shoulder_angle" -> << <<"handlebar", "lower", 5>> >>
          [] t = "elbow_angle"    -> << <<"stem", "shorten", 3>> >>

\* the conditional row of a cell, if it has one: <<component, direction, tenths, priority offset>>
BonusTable(t, direction) ==
    IF direction = "low" /\ t = "neck_angle" THEN << <<"stem", "shorten", 5, 1>> >>
    ELSE IF direction = "high" /\ t = "shoulder_angle" THEN << <<"stem", "extend", 3, 1>> >>
    ELSE IF direction = "high" /\ t = "hip_angle" THEN << <<"handlebar", "lower", 5, 0>> >>
    ELSE <<>>

\* C2: in each of the ten cells the call's leading recommendations are exactly the
\* unconditional rows of the rule table, in table order, each with amount = factor * d
\* and the tier priority.
C2_RuleTable ==
    \A i \in 1..Len(rule_calls) :
        LET c == rule_calls[i]
            rows == RuleTable(c.angle_type, c.direction)
        IN  /\ Len(c.result) >= Len(rows)
            /\ \A j \in 1..Len(rows) :
                   /\ c.result[j].component = rows[j][1]
                   /\ c.result[j].direction = rows[j][2]
                   /\ c.result[j].amount = c.deviation * rows[j][3]
                   /\ c.result[j].priority = TierPriority(c.deviation)

\* C2 witness: a hip angle below its minimum produced saddle back and handlebar raise
C2_Witness ==
    /\ Analyzed
    /\ \E i \in 1..Len(rule_calls) :
           /\ rule_calls[i].angle_type = "hip_angle"
           /\ rule_calls[i].direction = "low"
           /\ Len(rule_calls[i].result) = 2
           /\ rule_calls[i].result[1].direction = "back"
           /\ rule_calls[i].result[2].direction = "raise"
           /\ rule_calls[i].result[2].amount = rule_calls[i].deviation * 5

\* C3: a call's result is the unconditional rows followed by the cell's bonus row, the
\* bonus being present exactly when the cell has one and the deviation is >= 5.0
\* (tier priority below 3): neck low -> stem shorten 0.5d at tier priority + 1,
\* shoulder high -> stem extend 0.3d at tier priority + 1, hip high -> handlebar lower
\* 0.5d at the tier priority.  A neck angle of 50 against (65, 75) yields handlebar
\* raise 15 at priority 1, then stem shorten 7.5 at priority 2.
C3_Bonus ==
    /\ \A i \in 1..Len(rule_calls) :
           LET c == rule_calls[i]
               rows == RuleTable(c.angle_type, c.direction)
               bonus == BonusTable(c.angle_type, c.direction)
               due == bonus # <<>> /\ c.deviation >= 5 * Scale
           IN  /\ Len(c.result) = Len(rows) + (IF due THEN 1 ELSE 0)
               /\ due =>
                      LET b == c.result[Len(rows) + 1] IN
                      /\ b.component = bonus[1][1]
                      /\ b.direction = bonus[1][2]
                      /\ b.amount = c.deviation * bonus[1][3]
                      /\ b.priority = TierPriority(c.deviation) + bonus[1][4]
    /\ (/\ Analyzed
        /\ DOMAIN pose_data = {"neck_angle"}
        /\ pose_data["neck_angle"] = 50 * Scale
        /\ IDEAL_ANGLES["neck_angle"] = <<65, 75>>)
       => /\ Len(recommendations) = 2
          /\ recommendations[1].component = "handlebar"
          /\ recommendations[1].direction = "raise"
          /\ recommendations[1].amount = 15 * Scale * Tenths
          /\ recommendations[1].priority = 1
          /\ recommendations[2].component = "stem"
          /\ recommendations[2].direction = "shorten"
          /\ recommendations[2].amount = 75 * Scale
          /\ recommendations[2].priority = 2

\* C3 witness: scenario A, the neck at 50 against (65, 75), has been analysed
C3_Witness ==
    /\ Analyzed
    /\ DOMAIN pose_data = {"neck_angle"}
    /\ pose_data["neck_angle"] = 50 * Scale
    /\ IDEAL_ANGLES["neck_angle"] = <<65, 75>>
    /\ Len(rule_calls) = 1
    /\ Len(rule_calls[1].result) = 2

Count(s, x) == Cardinality({i \in 1..Len(s) : s[i] = x})

\* an angle of the pose lies strictly outside its ideal range
OutOfRange(t) == pose_data[t] < MinOf(t) \/ pose_data[t] > MaxOf(t)

\* an angle of the pose lies inside its ideal range, both ends included
InRange(t) == MinOf(t) <= pose_data[t] /\ pose_data[t] <= MaxOf(t)

\* the rule-engine calls made for angle-type t
CallsOf(t) == {i \in 1..Len(rule_calls) : rule_calls[i].angle_type = t}

\* the number of recommendations the first n rule-engine calls returned
RECURSIVE ResultsBefore(_)
ResultsBefore(n) ==
    IF n = 0 THEN 0 ELSE ResultsBefore(n - 1) + Len(rule_calls[n].result)

\* C4: analyze_pose returns a permutation of the concatenation of the rule-engine
\* results of all out-of-range angles (nothing dropped, merged or deduplicated), in
\* non-decreasing priority, two recommendations of equal priority keeping the order
\* in which the rule engine emitted them.
C4_StableSortedPermutation ==
    Analyzed =>
        /\ {rule_calls[i].angle_type : i \in 1..Len(rule_calls)}
               = {t \in DOMAIN pose_data : OutOfRange(t)}
        /\ Len(emitted) = ResultsBefore(Len(rule_calls))
        /\ \A i \in 1..Len(rule_calls) : \A j \in 1..Len(rule_calls[i].result) :
               emitted[ResultsBefore(i - 1) + j] = rule_calls[i].result[j]
        /\ Len(recommendations) = Len(emitted)
        /\ \A r \in Range(emitted) \cup Range(recommendations) :
               Count(recommendations, r) = Count(emitted, r)
        /\ \A i, j \in 1..Len(recommendations) :
               i < j => recommendations[i].priority <= recommendations[j].priority
        /\ \A i, j \in 1..Len(recommendations) :
               (i < j /\ recommendations[i].priority = recommendations[j].priority)
               => \E a, b \in 1..Len(emitted) :
                      /\ a < b
                      /\ emitted[a] = recommendations[i]
                      /\ emitted[b] = recommendations[j]

\* C4 witness: the sort moved something, two recommendations of equal priority come
\* from different angles, and two recommendations name the same component
C4_Witness ==
    /\ Analyzed
    /\ recommendations # emitted
    /\ \E i, j \in 1..Len(recommendations) :
           /\ i < j
           /\ recommendations[i].priority = recommendations[j].priority
           /\ recommendations[i].component = recommendations[j].component
           /\ recommendations[i].angles_affected[1] # recommendations[j].angles_affected[1]

\* C5: an angle of a type with a configured range is in range iff min <= value <= max,
\* both ends included: is_in_range answers true exactly then, and analyze_pose makes no
\* rule-engine call (so emits no recommendation) for that angle exactly then.
C5_InclusiveRange ==
    /\ Analyzed =>
           \A t \in DOMAIN pose_data \cap DOMAIN IDEAL_ANGLES :
               /\ (CallsOf(t) = {}) <=> InRange(t)
               /\ (DOMAIN pose_data = {t}) => ((recommendations = <<>>) <=> InRange(t))
    /\ pc = "drawn" =>
           \A t \in DOMAIN pose_data \cap DOMAIN IDEAL_ANGLES :
               in_range[t] <=> InRange(t)

\* C5 witness: a value equal to the maximum of a proper range was found in range and
\* got no recommendation
C5_Witness ==
    /\ pc = "drawn"
    /\ \E t \in DOMAIN pose_data :
           /\ MinOf(t) < MaxOf(t)
           /\ pose_data[t] = MaxOf(t)
           /\ in_range[t]
           /\ recommendations = <<>>

\* the deviation analyze_pose computed for angle-type t, 0 when it made no call
DeviationOf(t) ==
    IF CallsOf(t) = {} THEN 0 ELSE rule_calls[CHOOSE i \in CallsOf(t) : TRUE].deviation

\* C6: for every value and every range with min <= max exactly one of in-range,
\* below-min, above-max holds; analyze_pose takes the low branch with deviation
\* min - value when below, the high branch with value - max when above and neither
\* otherwise, so the deviation is never negative and is 0 iff the angle is in range.
C6_ClassificationTotal ==
    Analyzed =>
        \A t \in DOMAIN pose_data \cap DOMAIN IDEAL_ANGLES :
            LET v == pose_data[t]
                below == v < MinOf(t)
                above == v > MaxOf(t)
                low == {i \in CallsOf(t) : rule_calls[i].direction = "low"}
                high == {i \in CallsOf(t) : rule_calls[i].direction = "high"}
            IN  MinOf(t) <= MaxOf(t) =>
                /\ Cardinality({x \in {"in", "below", "above"} :
                       \/ x = "in" /\ CallsOf(t) = {}
                       \/ x = "below" /\ low # {}
                       \/ x = "above" /\ high # {}}) = 1
                /\ Cardinality(CallsOf(t)) <= 1
                /\ (low # {}) <=> below
                /\ (high # {}) <=> above
                /\ (CallsOf(t) = {}) <=> InRange(t)
                /\ below => DeviationOf(t) = MinOf(t) - v
                /\ above => DeviationOf(t) = v - MaxOf(t)
                /\ DeviationOf(t) >= 0
                /\ (DeviationOf(t) = 0) <=> InRange(t)

\* C6 witness: a value above a range whose minimum equals its maximum
C6_Witness ==
    /\ Analyzed
    /\ \E t \in DOMAIN pose_data :
           /\ MinOf(t) = MaxOf(t)
           /\ pose_data[t] > MaxOf(t)
           /\ Len(rule_calls) = 1
           /\ rule_calls[1].direction = "high"
           /\ rule_calls[1].deviation = pose_data[t] - MaxOf(t)

\* C7: within one analyze_pose call the rule engine is invoked at most once per angle
\* of the pose, only for an angle strictly outside its range and with a deviation > 0,
\* never for an in-range angle; every recommendation returned has amount > 0.
C7_CallsOnlyOutOfRange ==
    Analyzed =>
        /\ \A t \in DOMAIN pose_data : Cardinality(CallsOf(t)) <= 1
        /\ \A i \in 1..Len(rule_calls) :
               /\ rule_calls[i].angle_type \in DOMAIN pose_data
               /\ OutOfRange(rule_calls[i].angle_type)
               /\ ~InRange(rule_calls[i].angle_type)
               /\ rule_calls[i].deviation > 0
        /\ \A i \in 1..Len(recommendations) : recommendations[i].amount > 0

\* C7 witness: two angles are out of range and got one call each, while an angle that
\* sits on the end of its range got none
C7_Witness ==
    /\ Analyzed
    /\ Len(rule_calls) = 2
    /\ \E t \in DOMAIN pose_data : pose_data[t] = MinOf(t) /\ CallsOf(t) = {}

\* the direct-threshold items are present whenever their condition holds
DirectChecksFire ==
    /\ ("knee_angle" \in DOMAIN pose_data /\ pose_data["knee_angle"] > 170 * Scale)
           => knee_warning_item \in Range(feedback_items)
    /\ ("neck_angle" \in DOMAIN pose_data /\ pose_data["neck_angle"] < 65 * Scale)
           => neck_warning_item \in Range(feedback_items)
    /\ ("hip_angle" \in DOMAIN pose_data /\ pose_data["hip_angle"] < 65 * Scale)
           => hip_warning_item \in Range(feedback_items)

\* C8 as stated: for every pose and every recommendation list, the empty one included,
\* generate_feedback's output holds the knee warning when the knee angle is > 170, the
\* neck warning when the neck angle is < 65 and the hip warning when the hip angle is < 65.
C8_Original == pc = "feedback" => DirectChecksFire

\* C8 as amended: the same for every pose and every non-empty recommendation list,
\* whatever the rule engine produced for the angle in question.
C8_DirectChecks == (pc = "feedback" /\ adjustments # <<>>) => DirectChecksFire

\* C8 witness: scenario B, a knee angle of 175 in range against (115, 180) for which the
\* rule engine emitted nothing, with a non-empty list from other angles, has its warning
C8_Witness ==
    /\ pc = "feedback"
    /\ adjustments # <<>>
    /\ pose_data["knee_angle"] = 175 * Scale
    /\ IDEAL_ANGLES["knee_angle"] = <<115, 180>>
    /\ CallsOf("knee_angle") = {}
    /\ \A i \in 1..Len(adjustments) : "knee_angle" \notin Range(adjustments[i].angles_affected)
    /\ knee_warning_item \in Range(feedback_items)

\* C9: for every pose, generate_feedback(pose, []) returns exactly one item, of type
\* "success" and priority 1: no summary, component, direct-threshold or tip item.
C9_EmptySuccess ==
    (pc = "feedback" /\ adjustments = <<>>)
    => /\ Len(feedback_items) = 1
       /\ feedback_items[1].type = "success"
       /\ feedback_items[1].priority = 1

\* C9 witness: the empty list was given with a pose that has angles out of range and a
\* neck below 65, and one success item came back
C9_Witness ==
    /\ pc = "feedback"
    /\ adjustments = <<>>
    /\ recommendations # <<>>
    /\ pose_data["neck_angle"] < 65 * Scale
    /\ Len(feedback_items) = 1
    /\ feedback_items[1].type = "success"

\* C10: when all five angles lie inside their ideal ranges analyze_pose returns the
\* empty list and generate_feedback of that pose and list returns the single success
\* item only; analyze_pose returns a non-empty list whenever an angle is out of range.
C10_AllInRange ==
    Analyzed =>
        /\ (\A t \in DOMAIN pose_data : InRange(t)) => recommendations = <<>>
        /\ (\E t \in DOMAIN pose_data : ~InRange(t)) => recommendations # <<>>
        /\ (/\ pc = "feedback"
            /\ \A t \in DOMAIN pose_data : InRange(t)
            /\ adjustments = recommendations)
           => /\ Len(feedback_items) = 1
              /\ feedback_items[1].type = "success"

\* C10 witness: scenario C, five angles in range (the knee at 175), no recommendation,
\* one success item
C10_Witness ==
    /\ pc = "feedback"
    /\ DOMAIN pose_data = AngleTypes
    /\ \A t \in AngleTypes : InRange(t)
    /\ pose_data["knee_angle"] = 175 * Scale
    /\ recommendations = <<>>
    /\ feedback_items = <<success_item>>


(***************************************************************************)
(* The settings panel and process_frame: ui/settings_panel.py,             *)
(* config/settings_manager.py, core/analyzer.py                            *)
(***************************************************************************)
\* the settings-panel events of one run
MaxEvents == 2

\* the values typed into a minimum or maximum spin box (QSpinBox, whole degrees)
EditValues == {50, 120}

\* Qt.Checked and Qt.Unchecked
CheckStates == {"Checked", "Unchecked"}

\* the measured value of an angle-type in a frame: five degrees under the shipped
\* minimum, or two degrees over it
FrameValues(t) ==
    {Deg(DEFAULT_IDEAL_ANGLES[t][1]) - Deg(minor_threshold),
     Deg(DEFAULT_IDEAL_ANGLES[t][1]) + Deg(2)}

FramePoses ==
    {[neck_angle |-> n, shoulder_angle |-> s, hip_angle |-> h,
      knee_angle |-> k, elbow_angle |-> e] :
        n \in FrameValues("neck_angle"), s \in FrameValues("shoulder_angle"),
        h \in FrameValues("hip_angle"), k \in FrameValues("knee_angle"),
        e \in FrameValues("elbow_angle")}

\* what detect_pose can return: None, or a pose with the five angles
Detections == {NoDetection} \cup {[found |-> TRUE, angles |-> p] : p \in FramePoses}

Min2_requested(a, b) == a

Min2(a, b) == IF a <= b THEN a ELSE b
Max2(a, b) == IF a >= b THEN a ELSE b

(***************************************************************************)
(* config/settings_manager.py, SettingsManager                              *)
(***************************************************************************)
\* line 65: the test of set
set_changes_unknown_keys(stored, key, value) ==
    key \notin DOMAIN stored \/ stored[key] # value

set_changes(stored, key, value) ==
    key \in DOMAIN stored /\ stored[key] # value

\* line 66: the settings after set(key, value)
set_settings(stored, key, value) ==
    IF set_changes(stored, key, value)
    THEN [k \in DOMAIN stored \cup {key} |-> IF k = key THEN value ELSE stored[k]]
    ELSE stored

notify_first_observer(registered, key, value) ==
    [i \in 1..Min2(1, Len(registered)) |->
        [observer |-> registered[i], key |-> key, value |-> value]]

\* _notify_observers, lines 79-82: one call per registered observer, in list order
notify_observers(registered, key, value) ==
    [i \in 1..Len(registered) |->
        [observer |-> registered[i], key |-> key, value |-> value]]

\* line 67: the observer calls set(key, value) makes
set_calls(stored, registered, key, value) ==
    IF set_changes(stored, key, value)
    THEN notify_observers(registered, key, value)
    ELSE <<>>

\* SettingsPanel._on_apply_preset: set("angles", a copy of the preset's table)
on_apply_preset(bike_id) ==
    /\ pc = "idle"
    /\ n_events < MaxEvents
    /\ LET value == BIKE_TYPES[bike_id]
        IN  /\ settings' = set_settings(settings, "angles", value)
            /\ notified' = set_calls(settings, observers, "angles", value)
    /\ n_events' = n_events + 1
    /\ UNCHANGED side_vars
    /\ UNCHANGED report_vars
    /\ UNCHANGED <<observers, settings_file, saved_settings>>
    /\ UNCHANGED angle_vars
    /\ UNCHANGED call_vars
    /\ UNCHANGED memo_vars
    /\ UNCHANGED camera_vars
    /\ UNCHANGED <<IDEAL_ANGLES, pose_data, rule_calls, emitted, recommendations,
                   in_range, adjustments, feedback_items, pc, detected, skipped>>

OnApplyPreset ==
    \E bike_id \in DOMAIN BIKE_TYPES : on_apply_preset(bike_id)

\* SettingsPanel._on_angle_min_changed: get("angles") returns the stored table itself,
\* the handler updates it in place, and set is called with that same table
on_angle_min_changed(angle_name, value) ==
    /\ pc = "idle"
    /\ n_events < MaxEvents
    /\ LET current_max == settings.angles[angle_name][2]
            updated == [settings EXCEPT
                           !.angles[angle_name] = <<Min2(value, current_max), current_max>>]
            current_angles == updated.angles
        IN  /\ settings' = set_settings(updated, "angles", current_angles)
            /\ notified' = set_calls(updated, observers, "angles", current_angles)
    /\ n_events' = n_events + 1
    /\ UNCHANGED side_vars
    /\ UNCHANGED report_vars
    /\ UNCHANGED <<observers, settings_file, saved_settings>>
    /\ UNCHANGED angle_vars
    /\ UNCHANGED call_vars
    /\ UNCHANGED memo_vars
    /\ UNCHANGED camera_vars
    /\ UNCHANGED <<IDEAL_ANGLES, pose_data, rule_calls, emitted, recommendations,
                   in_range, adjustments, feedback_items, pc, detected, skipped>>

OnAngleMinChanged ==
    \E angle_name \in DOMAIN settings.angles, value \in EditValues :
        on_angle_min_changed(angle_name, value)

\* SettingsPanel._on_angle_max_changed: in place as well
on_angle_max_changed(angle_name, value) ==
    /\ pc = "idle"
    /\ n_events < MaxEvents
    /\ LET current_min == settings.angles[angle_name][1]
            updated == [settings EXCEPT
                           !.angles[angle_name] = <<current_min, Max2(value, current_min)>>]
            current_angles == updated.angles
        IN  /\ settings' = set_settings(updated, "angles", current_angles)
            /\ notified' = set_calls(updated, observers, "angles", current_angles)
    /\ n_events' = n_events + 1
    /\ UNCHANGED side_vars
    /\ UNCHANGED report_vars
    /\ UNCHANGED <<observers, settings_file, saved_settings>>
    /\ UNCHANGED angle_vars
    /\ UNCHANGED call_vars
    /\ UNCHANGED memo_vars
    /\ UNCHANGED camera_vars
    /\ UNCHANGED <<IDEAL_ANGLES, pose_data, rule_calls, emitted, recommendations,
                   in_range, adjustments, feedback_items, pc, detected, skipped>>

OnAngleMaxChanged ==
    \E angle_name \in DOMAIN settings.angles, value \in EditValues :
        on_angle_max_changed(angle_name, value)

\* SettingsPanel._on_angle_enabled_changed: in place as well
on_angle_enabled_changed(angle_name, state) ==
    /\ pc = "idle"
    /\ n_events < MaxEvents
    /\ LET enabled == (state = "Checked")
            updated == [settings EXCEPT !.angles_enabled[angle_name] = enabled]
            angles_enabled == updated.angles_enabled
        IN  /\ settings' = set_settings(updated, "angles_enabled", angles_enabled)
            /\ notified' = set_calls(updated, observers, "angles_enabled", angles_enabled)
    /\ n_events' = n_events + 1
    /\ UNCHANGED side_vars
    /\ UNCHANGED report_vars
    /\ UNCHANGED <<observers, settings_file, saved_settings>>
    /\ UNCHANGED angle_vars
    /\ UNCHANGED call_vars
    /\ UNCHANGED memo_vars
    /\ UNCHANGED camera_vars
    /\ UNCHANGED <<IDEAL_ANGLES, pose_data, rule_calls, emitted, recommendations,
                   in_range, adjustments, feedback_items, pc, detected, skipped>>

OnAngleEnabledChanged ==
    \E angle_name \in DOMAIN settings.angles_enabled, state \in CheckStates :
        on_angle_enabled_changed(angle_name, state)

\* SettingsPanel._on_show_guidance_changed: set("show_guidance", state == Qt.Checked)
on_show_guidance_changed(state) ==
    /\ pc = "idle"
    /\ n_events < MaxEvents
    /\ LET value == (state = "Checked")
        IN  /\ settings' = set_settings(settings, "show_guidance", value)
            /\ notified' = set_calls(settings, observers, "show_guidance", value)
    /\ n_events' = n_events + 1
    /\ UNCHANGED side_vars
    /\ UNCHANGED report_vars
    /\ UNCHANGED <<observers, settings_file, saved_settings>>
    /\ UNCHANGED angle_vars
    /\ UNCHANGED call_vars
    /\ UNCHANGED memo_vars
    /\ UNCHANGED camera_vars
    /\ UNCHANGED <<IDEAL_ANGLES, pose_data, rule_calls, emitted, recommendations,
                   in_range, adjustments, feedback_items, pc, detected, skipped>>

OnShowGuidanceChanged ==
    \E state \in CheckStates : on_show_guidance_changed(state)

filtered_angles_all(angles, angles_enabled) == angles

\* process_frame, lines 69-80: the angles of the pose whose type is enabled
filtered_angles(angles, angles_enabled) ==
    [angle_name \in {a \in DOMAIN angles :
                        a \in DOMAIN angles_enabled /\ angles_enabled[a]}
        |-> angles[angle_name]]

\* process_frame, lines 63-86: detect, filter, and analyse when guidance is shown
ProcessFrame ==
    /\ pc = "idle"
    /\ \E d \in Detections :
        /\ detected' = d
        /\ pose_data' = IF d.found
                        THEN filtered_angles(d.angles, settings.angles_enabled)
                        ELSE NoPose
        /\ IF d.found /\ settings.show_guidance
           THEN /\ rule_calls' = RuleCalls(pose_data', Items(pose_data'))
                /\ emitted' = Extend(rule_calls')
                /\ recommendations' = analyze_pose(pose_data')
           ELSE /\ rule_calls' = <<>>
                /\ emitted' = <<>>
                /\ recommendations' = <<>>
        /\ adjustments' = recommendations'
        /\ skipped' = skipped \cup
               {t \in DOMAIN d.angles :
                   /\ d.found /\ settings.show_guidance
                   /\ ~settings.angles_enabled[t]
                   /\ ~is_in_range(t, d.angles[t], IDEAL_ANGLES)}
    /\ pc' = "frame"
    /\ UNCHANGED side_vars
    /\ UNCHANGED report_vars
    /\ UNCHANGED manager_vars
    /\ UNCHANGED angle_vars
    /\ UNCHANGED call_vars
    /\ UNCHANGED memo_vars
    /\ UNCHANGED camera_vars
    /\ UNCHANGED <<IDEAL_ANGLES, in_range, feedback_items, settings, n_events>>

\* the frame has been shown; the next one starts from the camera again
EndFrame ==
    /\ pc = "frame"
    /\ detected' = NoDetection
    /\ pose_data' = NoPose
    /\ rule_calls' = <<>>
    /\ emitted' = <<>>
    /\ recommendations' = <<>>
    /\ adjustments' = <<>>
    /\ pc' = "idle"
    /\ UNCHANGED side_vars
    /\ UNCHANGED report_vars
    /\ UNCHANGED manager_vars
    /\ UNCHANGED angle_vars
    /\ UNCHANGED call_vars
    /\ UNCHANGED memo_vars
    /\ UNCHANGED camera_vars
    /\ UNCHANGED <<IDEAL_ANGLES, in_range, feedback_items, settings, n_events, skipped>>

FrameNext ==
    \/ OnApplyPreset
    \/ OnAngleMinChanged
    \/ OnAngleMaxChanged
    \/ OnAngleEnabledChanged
    \/ OnShowGuidanceChanged
    \/ ProcessFrame
    \/ EndFrame

FrameSpec == Init /\ [][FrameNext]_vars

\* the angle-types for which the frame's list holds recommendations: those whose
\* rule-engine call returned some
RecommendedTypes ==
    {rule_calls[i].angle_type :
        i \in {j \in 1..Len(rule_calls) : rule_calls[j].result # <<>>}}

\* the enabled angle-types of the detected pose whose value is outside a range table
EnabledOutside(ideal_ranges) ==
    {t \in DOMAIN detected.angles :
        /\ settings.angles_enabled[t]
        /\ ~is_in_range(t, detected.angles[t], ideal_ranges)}

\* a frame that was analysed: a pose was found and guidance is shown
FrameAnalyzed == pc = "frame" /\ detected.found /\ settings.show_guidance

\* C11: once settings["angles"] holds a replaced range (a preset or an edited minimum
\* or maximum), the frame processed next has recommendations for exactly the enabled
\* angle-types whose value is outside the range now configured.
C11_ConfiguredRange ==
    FrameAnalyzed => RecommendedTypes = EnabledOutside(settings.angles)


\* the rule-engine calls of the frame made for an angle-type
FrameCallsOf(t) == {rule_calls[i] : i \in {j \in 1..Len(rule_calls) : rule_calls[j].angle_type = t}}

\* C16: in every processed frame no rule-engine call, hence no recommendation, is made
\* for an angle-type whose enabled flag is false, whatever its value; when the frame is
\* analysed (a pose was found and guidance is shown) every enabled angle-type gets
\* exactly the call that its value gets against IDEAL_ANGLES, and the list is the sorted
\* results of those calls.  The flag is read afresh in every frame, so an angle-type
\* enabled again is classified again in the next frame.
C16_DisabledSkipped ==
    pc = "frame" =>
        /\ \A t \in AngleTypes : ~settings.angles_enabled[t] => FrameCallsOf(t) = {}
        /\ FrameAnalyzed =>
            /\ \A t \in AngleTypes :
                   settings.angles_enabled[t] =>
                       FrameCallsOf(t) = Range(RuleCall(t, detected.angles[t]))
            /\ recommendations = SortByPriority(Extend(rule_calls))

\* C16 witness: the neck, left out of an earlier frame although out of range, is enabled
\* again and has its recommendations in this frame
C16_Witness ==
    /\ FrameAnalyzed
    /\ "neck_angle" \in skipped
    /\ settings.angles_enabled["neck_angle"]
    /\ "neck_angle" \in RecommendedTypes

\* a frame leaves an out-of-range angle-type out while classifying another one
C16_WitnessSkipping ==
    /\ FrameAnalyzed
    /\ ~settings.angles_enabled["hip_angle"]
    /\ ~is_in_range("hip_angle", detected.angles["hip_angle"], IDEAL_ANGLES)
    /\ "hip_angle" \notin RecommendedTypes
    /\ "knee_angle" \in RecommendedTypes


(***************************************************************************)
(* core/pose_detector.py, PoseDetector._process_landmarks: the side of the  *)
(* body the angles are measured on                                          *)
(***************************************************************************)
\* a visibility is a float in [0, 1]; it is modelled in steps of 1/VisLevels
VisLevels == 2

\* the frame's shape
CAMERA_WIDTH == 1280
CAMERA_HEIGHT == 720

\* normalised coordinates are modelled in thousandths of the frame
PerMille == 1000

SideJoints == <<"shoulder", "elbow", "wrist", "hip", "knee", "ankle">>

Prefixed(side, joint) ==
    IF side = "right"
    THEN CASE joint = "shoulder" -> "right_shoulder" [] joint = "elbow" -> "right_elbow"
           [] joint = "wrist" -> "right_wrist" [] joint = "hip" -> "right_hip"
           [] joint = "knee" -> "right_knee" [] joint = "ankle" -> "right_ankle"
    ELSE CASE joint = "shoulder" -> "left_shoulder" [] joint = "elbow" -> "left_elbow"
           [] joint = "wrist" -> "left_wrist" [] joint = "hip" -> "left_hip"
           [] joint = "knee" -> "left_knee" [] joint = "ankle" -> "left_ankle"

LandmarkNames ==
    {"nose"} \cup {Prefixed(side, SideJoints[i]) : side \in {"right", "left"},
                                                    i \in 1..Len(SideJoints)}

\* a rider seen from the side, in thousandths of the frame
RiderLayout ==
    [nose |-> <<600, 200>>, shoulder |-> <<500, 300>>, elbow |-> <<580, 400>>,
     wrist |-> <<650, 450>>, hip |-> <<400, 450>>, knee |-> <<480, 600>>,
     ankle |-> <<450, 800>>]

\* the far side of the body appears shifted against the near one
FarSideShift == <<20, 10>>

\* the landmark positions of a frame: the right side is the near one, or the left
LandmarkPositions ==
    {[n \in LandmarkNames |->
        IF n = "nose" THEN RiderLayout.nose
        ELSE LET side == IF n \in {Prefixed("right", SideJoints[i]) : i \in 1..Len(SideJoints)}
                         THEN "right" ELSE "left"
                 joint == CHOOSE j \in Range(SideJoints) : Prefixed(side, j) = n
             IN  IF side = near THEN RiderLayout[joint]
                 ELSE <<RiderLayout[joint][1] + FarSideShift[1],
                        RiderLayout[joint][2] + FarSideShift[2]>>]
     : near \in {"right", "left"}}

\* the visibilities of a frame: any level for the six deciding landmarks, full elsewhere
LandmarkVisibilities ==
    {[n \in LandmarkNames |->
        CASE n = "right_shoulder" -> rs [] n = "right_hip" -> rh [] n = "right_knee" -> rk
          [] n = "left_shoulder" -> ls [] n = "left_hip" -> lh [] n = "left_knee" -> lk
          [] OTHER -> VisLevels]
     : rs \in 0..VisLevels, rh \in 0..VisLevels, rk \in 0..VisLevels,
       ls \in 0..VisLevels, lh \in 0..VisLevels, lk \in 0..VisLevels}

PoseLandmarks ==
    {[n \in LandmarkNames |->
        [x |-> pos[n][1], y |-> pos[n][2], visibility |-> vis[n]]]
     : pos \in LandmarkPositions, vis \in LandmarkVisibilities}

\* lines 78-134: int(landmark.x * width), int(landmark.y * height)
points(lm) ==
    [n \in DOMAIN lm |-> Point((lm[n].x * CAMERA_WIDTH) \div PerMille,
                               (lm[n].y * CAMERA_HEIGHT) \div PerMille)]

\* lines 137-147
right_visibility(lm) ==
    lm["right_shoulder"].visibility + lm["right_hip"].visibility + lm["right_knee"].visibility

left_visibility(lm) ==
    lm["left_shoulder"].visibility + lm["left_hip"].visibility + lm["left_knee"].visibility

right_selected_on_tie(lm) == right_visibility(lm) >= left_visibility(lm)

\* line 150: the test of the side selection
right_selected(lm) == right_visibility(lm) > left_visibility(lm)

\* the ankle of the other side than the one selected
selected_side_other_ankle(lm) ==
    [joint \in Range(SideJoints) |->
        points(lm)[Prefixed(IF right_selected(lm) = (joint # "ankle") THEN "right" ELSE "left",
                            joint)]]

\* lines 150-163: the six points of the more visible side
selected_side(lm) ==
    IF right_selected(lm)
    THEN [joint \in Range(SideJoints) |-> points(lm)[Prefixed("right", joint)]]
    ELSE [joint \in Range(SideJoints) |-> points(lm)[Prefixed("left", joint)]]

\* create_angle without the value: the points and the type of an Angle
create_angle(a, b, c, angle_type) ==
    [angle_type |-> angle_type, point_a |-> a, point_b |-> b, point_c |-> c]

\* _process_landmarks, lines 70-185
ProcessLandmarks ==
    /\ pc = "idle"
    /\ \E lm \in PoseLandmarks :
        LET side == selected_side(lm)
            nose == points(lm)["nose"]
        IN  /\ landmarks' = lm
            /\ pose_angles' =
                 [neck_angle |-> create_angle(nose, side.shoulder, side.hip, "neck_angle"),
                  shoulder_angle |-> create_angle(side.hip, side.shoulder, side.elbow,
                                                  "shoulder_angle"),
                  elbow_angle |-> create_angle(side.shoulder, side.elbow, side.wrist,
                                               "elbow_angle"),
                  hip_angle |-> create_angle(side.shoulder, side.hip, side.knee, "hip_angle"),
                  knee_angle |-> create_angle(side.hip, side.knee, side.ankle, "knee_angle")]
            /\ selected_points' =
                 [nose |-> nose, shoulder |-> side.shoulder, elbow |-> side.elbow,
                  wrist |-> side.wrist, hip |-> side.hip, knee |-> side.knee,
                  ankle |-> side.ankle]
    /\ pc' = "landmarks"
    /\ UNCHANGED frame_vars
    /\ UNCHANGED report_vars
    /\ UNCHANGED manager_vars
    /\ UNCHANGED angle_vars
    /\ UNCHANGED call_vars
    /\ UNCHANGED memo_vars
    /\ UNCHANGED camera_vars
    /\ UNCHANGED <<IDEAL_ANGLES, pose_data, rule_calls, emitted, recommendations,
                   in_range, adjustments, feedback_items>>

\* the next frame's landmarks replace these
NextLandmarks ==
    /\ pc = "landmarks"
    /\ landmarks' = NoLandmarks
    /\ selected_points' = NoLandmarks
    /\ pose_angles' = NoLandmarks
    /\ pc' = "idle"
    /\ UNCHANGED frame_vars
    /\ UNCHANGED report_vars
    /\ UNCHANGED manager_vars
    /\ UNCHANGED angle_vars
    /\ UNCHANGED call_vars
    /\ UNCHANGED memo_vars
    /\ UNCHANGED camera_vars
    /\ UNCHANGED <<IDEAL_ANGLES, pose_data, rule_calls, emitted, recommendations,
                   in_range, adjustments, feedback_items>>

SideNext == ProcessLandmarks \/ NextLandmarks

SideSpec == Init /\ [][SideNext]_vars

\* the points every angle of the frame is measured on, and the selected landmark set,
\* are those of one side of the reported landmarks
UsesSide(side) ==
    LET pt(joint) == points(landmarks)[Prefixed(side, joint)]
        nose == points(landmarks)["nose"]
    IN  /\ \A i \in 1..Len(SideJoints) : selected_points[SideJoints[i]] = pt(SideJoints[i])
        /\ selected_points["nose"] = nose
        /\ <<pose_angles.neck_angle.point_a, pose_angles.neck_angle.point_b, pose_angles.neck_angle.point_c>>
             = <<nose, pt("shoulder"), pt("hip")>>
        /\ <<pose_angles.shoulder_angle.point_a, pose_angles.shoulder_angle.point_b,
             pose_angles.shoulder_angle.point_c>> = <<pt("hip"), pt("shoulder"), pt("elbow")>>
        /\ <<pose_angles.elbow_angle.point_a, pose_angles.elbow_angle.point_b,
             pose_angles.elbow_angle.point_c>> = <<pt("shoulder"), pt("elbow"), pt("wrist")>>
        /\ <<pose_angles.hip_angle.point_a, pose_angles.hip_angle.point_b, pose_angles.hip_angle.point_c>>
             = <<pt("shoulder"), pt("hip"), pt("knee")>>
        /\ <<pose_angles.knee_angle.point_a, pose_angles.knee_angle.point_b, pose_angles.knee_angle.point_c>>
             = <<pt("hip"), pt("knee"), pt("ankle")>>

\* the summed visibilities of the two sides are equal
VisibilityTie == right_visibility(landmarks) = left_visibility(landmarks)

\* C12 as stated: when the summed visibility of {shoulder, hip, knee} is equal for the
\* two sides, the right side's landmarks are used for all angles of the frame.
C12_Original == (pc = "landmarks" /\ VisibilityTie) => UsesSide("right")

\* C12 as amended: when the summed visibility of {shoulder, hip, knee} is equal for the
\* two sides, the left side's landmarks are used for all angles of the frame.
C12_TieLeft == (pc = "landmarks" /\ VisibilityTie) => UsesSide("left")

\* C12 witness: a tie made of different visibilities per joint, the right side being the
\* near one, and the shoulder used is the left one
C12_Witness ==
    /\ pc = "landmarks"
    /\ VisibilityTie
    /\ landmarks["right_shoulder"].visibility = VisLevels
    /\ landmarks["left_shoulder"].visibility = 0
    /\ landmarks["right_shoulder"].x = RiderLayout.shoulder[1]
    /\ selected_points["shoulder"] = points(landmarks)["left_shoulder"]
    /\ selected_points["shoulder"] # points(landmarks)["right_shoulder"]


(***************************************************************************)
(* guidance/feedback.py, generate_feedback on any recommendation list: the  *)
(* lists are not only those analyze_pose returns                            *)
(***************************************************************************)
\* the longest recommendation list handed to generate_feedback
MaxRecs == 3

\* the deviations, one per severity tier, of the recommendations handed over
PoolDeviations == {Deg(2), Deg(7), Deg(12)}

\* recommendations as the rule engine builds them: for a low neck and a low knee in
\* each tier, and for a low hip in the middle tier
RecPool ==
    UNION {Range(generate_recommendations_for_low_angle(t, d)) :
              t \in {"neck_angle", "knee_angle"}, d \in PoolDeviations}
    \cup Range(generate_recommendations_for_low_angle("hip_angle", Deg(7)))

RecLists == UNION {[1..n -> RecPool] : n \in 0..MaxRecs}

\* poses on both sides of the three fixed thresholds of the direct checks
FeedbackPoses ==
    {[neck_angle |-> n, shoulder_angle |-> Deg(90), hip_angle |-> h,
      knee_angle |-> k, elbow_angle |-> Deg(155)] :
        n \in {Deg(60), Deg(70)}, h \in {Deg(60), Deg(100)}, k \in {Deg(150), Deg(175)}}

\* FeedbackGenerator.generate_feedback called with a pose and a list
CallGenerateFeedback ==
    /\ pc = "idle"
    /\ \E p \in FeedbackPoses, adjs \in RecLists :
        /\ pose_data' = p
        /\ adjustments' = adjs
        /\ feedback_items' = generate_feedback(p, adjs)
    /\ pc' = "feedback"
    /\ UNCHANGED frame_vars
    /\ UNCHANGED side_vars
    /\ UNCHANGED report_vars
    /\ UNCHANGED manager_vars
    /\ UNCHANGED angle_vars
    /\ UNCHANGED call_vars
    /\ UNCHANGED memo_vars
    /\ UNCHANGED camera_vars
    /\ UNCHANGED <<IDEAL_ANGLES, rule_calls, emitted, recommendations, in_range>>

FeedbackNext == CallGenerateFeedback \/ NextFrame

FeedbackSpec == Init /\ [][FeedbackNext]_vars


\* generate_feedback was called with a non-empty list
FeedbackGiven == pc = "feedback" /\ adjustments # <<>>

\* the components occurring in the list handed over
ComponentsOf(adjs) == {adjs[i].component : i \in 1..Len(adjs)}

\* the position in the list of the recommendation a component's item is built from:
\* the first one among those of the component with the lowest priority
ChosenIndex(adjs, c) ==
    CHOOSE i \in 1..Len(adjs) :
        /\ adjs[i].component = c
        /\ \A k \in 1..Len(adjs) :
               adjs[k].component = c =>
                   \/ adjs[k].priority > adjs[i].priority
                   \/ (adjs[k].priority = adjs[i].priority /\ k >= i)

\* the fixed items of generate_feedback carry a one-part message, a component item
\* the component's title, the separator and the description
IsComponentItem(item) == Len(item.message) > 1

IsSummaryItem(item) == item \in {summary_warning_item, summary_info_item}

IsPostureItem(item) == item \in {neck_warning_item, hip_warning_item, knee_warning_item}

PositionsOf(items, Test(_)) == {i \in 1..Len(items) : Test(items[i])}

\* C13: for every non-empty list, generate_feedback's output has exactly one component
\* item per distinct component of the list and no other component item; the item of a
\* component is built from the component's recommendation of the lowest priority, the
\* first such one in list order: its message is the component's title, ": " and that
\* recommendation's description, its priority is that recommendation's, and its type is
\* "warning" when that priority is at most 2 and "info" otherwise.
C13_ComponentItems ==
    FeedbackGiven =>
        /\ Cardinality(PositionsOf(feedback_items, IsComponentItem))
             = Cardinality(ComponentsOf(adjustments))
        /\ \A c \in ComponentsOf(adjustments) :
             LET chosen == adjustments[ChosenIndex(adjustments, c)]
                 IsOfC(item) == IsComponentItem(item) /\ item.message[1] = Title(c)
                 at == PositionsOf(feedback_items, IsOfC)
             IN  /\ Cardinality(at) = 1
                 /\ \A i \in at :
                      /\ feedback_items[i].message
                           = <<Title(c), ": ">> \o chosen.description
                      /\ feedback_items[i].priority = chosen.priority
                      /\ feedback_items[i].type
                           = (IF chosen.priority <= 2 THEN "warning" ELSE "info")

\* C13 witness: three handlebar recommendations, two different ones of priority 2
\* followed by one of priority 3, and the handlebar item carries the first one's text
C13_Witness ==
    /\ FeedbackGiven
    /\ Len(adjustments) = 3
    /\ \A i \in 1..3 : adjustments[i].component = "handlebar"
    /\ adjustments[1].priority = 2
    /\ adjustments[2].priority = 2
    /\ adjustments[3].priority = 3
    /\ adjustments[1].description # adjustments[2].description
    /\ \E i \in 1..Len(feedback_items) :
           /\ feedback_items[i].message = <<"Handlebar", ": ">> \o adjustments[1].description
           /\ feedback_items[i].type = "warning"
           /\ feedback_items[i].priority = 2

\* C14: for every non-empty list, generate_feedback's output has exactly one summary
\* item; it has priority 1, and it is the "warning" summary exactly when some
\* recommendation of the list has priority 1, the "info" summary otherwise.
C14_SummaryItem ==
    FeedbackGiven =>
        LET at == PositionsOf(feedback_items, IsSummaryItem)
        IN  /\ Cardinality(at) = 1
            /\ \A i \in at :
                 /\ feedback_items[i].priority = 1
                 /\ feedback_items[i].type = "warning"
                      <=> \E k \in 1..Len(adjustments) : adjustments[k].priority = 1
                 /\ feedback_items[i].type \in {"warning", "info"}

\* C14 witness: a list whose most urgent recommendation has priority 2 gets the "info"
\* summary
C14_Witness ==
    /\ FeedbackGiven
    /\ \E k \in 1..Len(adjustments) : adjustments[k].priority = 2
    /\ \A k \in 1..Len(adjustments) : adjustments[k].priority >= 2
    /\ summary_info_item \in Range(feedback_items)
    /\ summary_warning_item \notin Range(feedback_items)

\* the creation order of generate_feedback's items: summary, component items in the
\* order their components first occur in the list, the neck, hip and knee checks, tip
CreatedBefore(a, b) ==
    LET Stage(item) == IF IsSummaryItem(item) THEN 0
                       ELSE IF IsComponentItem(item) THEN 1
                       ELSE IF IsPostureItem(item) THEN 2
                       ELSE 3
        FirstOf(item) == CHOOSE k \in 1..Len(adjustments) :
                             /\ Title(adjustments[k].component) = item.message[1]
                             /\ \A m \in 1..(k - 1) :
                                    adjustments[m].component # adjustments[k].component
        CheckOf(item) == IF item = neck_warning_item THEN 1
                         ELSE IF item = hip_warning_item THEN 2
                         ELSE 3
    IN  \/ Stage(a) < Stage(b)
        \/ Stage(a) = 1 /\ Stage(b) = 1 /\ FirstOf(a) < FirstOf(b)
        \/ Stage(a) = 2 /\ Stage(b) = 2 /\ CheckOf(a) < CheckOf(b)

\* C15: for every non-empty list, generate_feedback's output is in non-decreasing
\* priority order with items of equal priority in creation order; it holds exactly one
\* tip item, of priority 5; its first element is the summary item, and its last element
\* is the tip when every recommendation's priority is below 5.
C15_Ordered ==
    FeedbackGiven =>
        /\ \A i, j \in 1..Len(feedback_items) :
             i < j =>
                 /\ feedback_items[i].priority <= feedback_items[j].priority
                 /\ feedback_items[i].priority = feedback_items[j].priority
                      => CreatedBefore(feedback_items[i], feedback_items[j])
        /\ Cardinality({i \in 1..Len(feedback_items) : feedback_items[i] = tip_item}) = 1
        /\ tip_item.priority = 5
        /\ IsSummaryItem(feedback_items[1])
        /\ (\A k \in 1..Len(adjustments) : adjustments[k].priority < 5)
             => feedback_items[Len(feedback_items)] = tip_item

\* C15 witness: a component item of priority 1 follows the summary, and a component
\* item of priority 2 precedes the warnings of the direct checks
C15_Witness ==
    /\ FeedbackGiven
    /\ Len(feedback_items) >= 6
    /\ IsComponentItem(feedback_items[2]) /\ feedback_items[2].priority = 1
    /\ IsComponentItem(feedback_items[3]) /\ feedback_items[3].priority = 2
    /\ feedback_items[4] = neck_warning_item
    /\ feedback_items[5] = knee_warning_item
    /\ feedback_items[Len(feedback_items)] = tip_item


(***************************************************************************)
(* guidance/feedback.py, generate_summary.  The text is modelled part by    *)
(* part: the verdict lines, the rows of the angle table and the numbered     *)
(* recommendation lines; the headings and the closing tips are fixed text.   *)
(***************************************************************************)
\* adjustments[:5]
top_recommendations == 5

excellent_line == "Overall: Excellent bike fit! All angles are within ideal ranges."
significant_line == "Overall: Significant adjustments needed to optimize your bike fit."
good_line == "Overall: Good bike fit with some minor adjustments recommended."

overall_from_priority_2(adjs) ==
    IF adjs = <<>> THEN <<excellent_line>>
    ELSE IF \E i \in 1..Len(adjs) : adjs[i].priority <= 2 THEN <<significant_line>>
    ELSE <<good_line>>

\* lines 150-156: the verdict lines added to the text
overall(adjs) ==
    IF adjs = <<>> THEN <<excellent_line>>
    ELSE IF \E i \in 1..Len(adjs) : adjs[i].priority = 1 THEN <<significant_line>>
    ELSE <<good_line>>

\* angle_type.replace('_', ' ').title()
AngleTitle(angle_type) ==
    CASE angle_type = "neck_angle" -> "Neck Angle"
      [] angle_type = "shoulder_angle" -> "Shoulder Angle"
      [] angle_type = "hip_angle" -> "Hip Angle"
      [] angle_type = "knee_angle" -> "Knee Angle"
      [] angle_type = "elbow_angle" -> "Elbow Angle"
      [] OTHER -> angle_type

\* f"{angle_value:.1f}": the value in tenths of a degree, halves rounded to even
OneDecimal(angle_value) ==
    LET q == (angle_value * 10) \div Scale
        r == (angle_value * 10) % Scale
    IN  IF 2 * r > Scale THEN q + 1
        ELSE IF 2 * r = Scale THEN q + (q % 2)
        ELSE q

\* lines 165-169: the rows of the angle table, against IDEAL_ANGLES
RECURSIVE measurement_rows(_, _)
measurement_rows(angle_values, items) ==
    IF items = <<>> THEN <<>>
    ELSE LET angle_type == Head(items)
             angle_value == angle_values[angle_type]
         IN  (IF angle_type \in DOMAIN IDEAL_ANGLES
              THEN LET min_val == IDEAL_ANGLES[angle_type][1]
                       max_val == IDEAL_ANGLES[angle_type][2]
                       status == IF Deg(min_val) <= angle_value /\ angle_value <= Deg(max_val)
                                 THEN "pass" ELSE "fail"
                   IN  <<[title |-> AngleTitle(angle_type),
                          value |-> OneDecimal(angle_value),
                          status |-> status, min_val |-> min_val, max_val |-> max_val]>>
              ELSE <<>>)
             \o measurement_rows(angle_values, Tail(items))

Slice(list, n) == SubSeq(list, 1, Min2(n, Len(list)))

recommendation_lines_one_more(adjs) ==
    LET shown == Slice(adjs, top_recommendations + 1)
    IN  [i \in 1..Len(shown) |-> <<i, shown[i].description>>]

\* lines 174-181: f"{i+1}. {adjustment.description}" over adjustments[:5]
recommendation_lines(adjs) ==
    LET shown == Slice(adjs, top_recommendations)
    IN  [i \in 1..Len(shown) |-> <<i, shown[i].description>>]

generate_summary(angle_values, adjs) ==
    [overall |-> overall(adjs),
     measurements |-> measurement_rows(angle_values, Items(angle_values)),
     recommendations |-> recommendation_lines(adjs)]

\* an angle in range, or three, seven or twelve degrees under the minimum
SummaryValues(t) ==
    {Deg(DEFAULT_IDEAL_ANGLES[t][1]) + Deg(2),
     Deg(DEFAULT_IDEAL_ANGLES[t][1]) - Deg(3),
     Deg(DEFAULT_IDEAL_ANGLES[t][1]) - Deg(7),
     Deg(DEFAULT_IDEAL_ANGLES[t][1]) - Deg(12)}

SummaryPoses ==
    {[neck_angle |-> n, shoulder_angle |-> s, hip_angle |-> h,
      knee_angle |-> k, elbow_angle |-> e] :
        n \in SummaryValues("neck_angle"), s \in SummaryValues("shoulder_angle"),
        h \in SummaryValues("hip_angle"), k \in SummaryValues("knee_angle"),
        e \in SummaryValues("elbow_angle")}

\* a pose arrives to be reported on
DetectSummaryPose ==
    /\ pc = "idle"
    /\ \E p \in SummaryPoses : pose_data' = p
    /\ pc' = "pose"
    /\ UNCHANGED frame_vars
    /\ UNCHANGED side_vars
    /\ UNCHANGED report_vars
    /\ UNCHANGED manager_vars
    /\ UNCHANGED angle_vars
    /\ UNCHANGED call_vars
    /\ UNCHANGED memo_vars
    /\ UNCHANGED camera_vars
    /\ UNCHANGED <<IDEAL_ANGLES, rule_calls, emitted, recommendations, in_range,
                   adjustments, feedback_items>>

\* FeedbackGenerator.generate_summary, lines 131-190, called with the pose and either
\* the list analyze_pose returned or the same recommendations in the order they were
\* created; it starts by calling generate_feedback
GenerateSummary ==
    /\ pc = "analyzed"
    /\ \E adjs \in {recommendations, emitted} :
        /\ adjustments' = adjs
        /\ feedback_items' = generate_feedback(pose_data, adjs)
        /\ summary' = generate_summary(pose_data, adjs)
    /\ pc' = "summary"
    /\ UNCHANGED frame_vars
    /\ UNCHANGED side_vars
    /\ UNCHANGED manager_vars
    /\ UNCHANGED angle_vars
    /\ UNCHANGED call_vars
    /\ UNCHANGED memo_vars
    /\ UNCHANGED camera_vars
    /\ UNCHANGED <<IDEAL_ANGLES, pose_data, rule_calls, emitted, recommendations, in_range>>

\* the report has been shown; everything about the pose is dropped
NextSummary ==
    /\ pc = "summary"
    /\ pose_data' = NoPose
    /\ rule_calls' = <<>>
    /\ emitted' = <<>>
    /\ recommendations' = <<>>
    /\ adjustments' = <<>>
    /\ feedback_items' = <<>>
    /\ summary' = NoSummary
    /\ pc' = "idle"
    /\ UNCHANGED frame_vars
    /\ UNCHANGED side_vars
    /\ UNCHANGED manager_vars
    /\ UNCHANGED angle_vars
    /\ UNCHANGED call_vars
    /\ UNCHANGED memo_vars
    /\ UNCHANGED camera_vars
    /\ UNCHANGED <<IDEAL_ANGLES, in_range>>

SummaryNext == DetectSummaryPose \/ AnalyzePose \/ GenerateSummary \/ NextSummary

SummarySpec == Init /\ [][SummaryNext]_vars

\* a list is in ascending priority order
AscendingPriority(adjs) ==
    \A i, j \in 1..Len(adjs) : i < j => adjs[i].priority <= adjs[j].priority

\* the lines are those of the recommendations of the lowest priorities of the list, in
\* ascending priority order: line i has the priority of the i-th lowest
LowestListed(lines, adjs) ==
    /\ Len(lines) = Min2(top_recommendations, Len(adjs))
    /\ \A i \in 1..Len(lines) :
           /\ lines[i][1] = i
           /\ \E j \in 1..Len(adjs) :
                  /\ adjs[j].description = lines[i][2]
                  /\ adjs[j].priority = SortByPriority(adjs)[i].priority

C18_Verdict ==
    pc = "summary" =>
        /\ Len(summary.overall) = 1
        /\ summary.overall[1] \in {excellent_line, significant_line, good_line}
        /\ summary.overall[1] = excellent_line <=> adjustments = <<>>
        /\ summary.overall[1] = significant_line
             <=> \E i \in 1..Len(adjustments) : adjustments[i].priority = 1
        /\ summary.overall[1] = good_line
             <=> /\ adjustments # <<>>
                 /\ \A i \in 1..Len(adjustments) : adjustments[i].priority # 1

\* C18 witness: a list whose most urgent recommendation has priority 2 is "Good"
C18_Witness ==
    /\ pc = "summary"
    /\ \E i \in 1..Len(adjustments) : adjustments[i].priority = 2
    /\ \A i \in 1..Len(adjustments) : adjustments[i].priority >= 2
    /\ summary.overall = <<good_line>>


(***************************************************************************)
(* Further properties of the rule engine                                    *)
(***************************************************************************)
\* the components a recommendation can name
Components == {"saddle", "handlebar", "stem"}

\* C19: every recommendation analyze_pose returns names one of the components saddle,
\* handlebar and stem and has an integer priority from 1 to 5, and in every rule-engine
\* call the conditional (bonus) recommendation has a priority at least as large as each
\* of the call's unconditional ones: it is never more urgent.
C19_WellFormed ==
    /\ \A i \in 1..Len(recommendations) :
           /\ recommendations[i].component \in Components
           /\ recommendations[i].priority \in 1..5
    /\ \A i \in 1..Len(rule_calls) :
           LET c == rule_calls[i]
               primary == Len(RuleTable(c.angle_type, c.direction))
           IN  \A j \in 1..primary, k \in (primary + 1)..Len(c.result) :
                   c.result[k].priority >= c.result[j].priority

\* C19 witness: a shoulder angle 10.0 or more above its maximum got the handlebar
\* recommendation at priority 1 and the stem bonus at priority 2
C19_Witness ==
    /\ Analyzed
    /\ Len(rule_calls) = 1
    /\ rule_calls[1].angle_type = "shoulder_angle"
    /\ rule_calls[1].direction = "high"
    /\ Len(recommendations) = 2
    /\ recommendations[1].component = "handlebar"
    /\ recommendations[1].priority = 1
    /\ recommendations[2].component = "stem"
    /\ recommendations[2].priority = 2


(***************************************************************************)
(* The rule engine on two deviations of one angle-type and direction        *)
(***************************************************************************)
\* the largest deviation compared, in degrees: beyond the last tier boundary
MaxDeviation == 12

\* a deviation is positive: the rule engine is called for values outside the range
Deviations == 1..Deg(MaxDeviation)

\* the call analyze_pose makes for a deviation below the minimum or above the maximum
rule_call(direction, angle_type, deviation) ==
    [direction |-> direction, angle_type |-> angle_type, deviation |-> deviation,
     result |-> IF direction = "low"
                THEN generate_recommendations_for_low_angle(angle_type, deviation)
                ELSE generate_recommendations_for_high_angle(angle_type, deviation)]

\* the rule engine is called for two deviations d1 <= d2 of one angle-type and direction
CompareDeviations ==
    /\ pc = "idle"
    /\ \E t \in AngleTypes, direction \in {"low", "high"}, d1 \in Deviations, d2 \in Deviations :
        /\ d1 <= d2
        /\ rule_calls' = <<rule_call(direction, t, d1), rule_call(direction, t, d2)>>
    /\ pc' = "compared"
    /\ UNCHANGED frame_vars
    /\ UNCHANGED side_vars
    /\ UNCHANGED report_vars
    /\ UNCHANGED manager_vars
    /\ UNCHANGED angle_vars
    /\ UNCHANGED call_vars
    /\ UNCHANGED memo_vars
    /\ UNCHANGED camera_vars
    /\ UNCHANGED <<IDEAL_ANGLES, pose_data, emitted, recommendations, in_range,
                   adjustments, feedback_items>>

\* the two results are dropped
NextComparison ==
    /\ pc = "compared"
    /\ rule_calls' = <<>>
    /\ pc' = "idle"
    /\ UNCHANGED frame_vars
    /\ UNCHANGED side_vars
    /\ UNCHANGED report_vars
    /\ UNCHANGED manager_vars
    /\ UNCHANGED angle_vars
    /\ UNCHANGED call_vars
    /\ UNCHANGED memo_vars
    /\ UNCHANGED camera_vars
    /\ UNCHANGED <<IDEAL_ANGLES, pose_data, emitted, recommendations, in_range,
                   adjustments, feedback_items>>

MonotoneNext == CompareDeviations \/ NextComparison

MonotoneSpec == Init /\ [][MonotoneNext]_vars

\* C20: for one angle-type and direction and deviations d1 <= d2, the tier priority of
\* d2, which the first recommendation of the call carries, is not larger than that of
\* d1, and every recommendation emitted for d1 (a component moved in a direction for
\* the same angles) is emitted for d2 as well, with a priority that is not larger.
C20_Monotone ==
    pc = "compared" =>
        LET small == rule_calls[1]
            large == rule_calls[2]
        IN  /\ TierPriority(large.deviation) <= TierPriority(small.deviation)
            /\ large.result[1].priority <= small.result[1].priority
            /\ \A j \in 1..Len(small.result) :
                   \E k \in 1..Len(large.result) :
                       /\ large.result[k].component = small.result[j].component
                       /\ large.result[k].direction = small.result[j].direction
                       /\ large.result[k].angles_affected = small.result[j].angles_affected
                       /\ large.result[k].priority <= small.result[j].priority

\* C20 witness: a hip angle 7.0 above its maximum and one 12.0 above it: the bonus
\* handlebar recommendation of the first, at priority 2, is there at priority 1
C20_Witness ==
    /\ pc = "compared"
    /\ rule_calls[1].angle_type = "hip_angle"
    /\ rule_calls[1].direction = "high"
    /\ rule_calls[1].deviation = 7 * Scale
    /\ rule_calls[2].deviation = 12 * Scale
    /\ Len(rule_calls[1].result) = 2
    /\ rule_calls[1].result[2].component = "handlebar"
    /\ rule_calls[1].result[2].priority = 2
    /\ Len(rule_calls[2].result) = 2
    /\ rule_calls[2].result[2].component = "handlebar"
    /\ rule_calls[2].result[2].priority = 1


(***************************************************************************)
(* config/settings_manager.py, save_to_file and load_from_file.  A JSON      *)
(* document is modelled by its structure.  A Python tuple is the sequence of *)
(* its items; a Python list is the sequence of its items followed by         *)
(* ListMark, which is no item of a range, so that a list differs from the    *)
(* tuple of the same items, as under Python's ==, while item 1 and item 2    *)
(* are found at the same places.                                             *)
(***************************************************************************)
ListMark == 0 - 1

PyList(items) == items \o <<ListMark>>

\* the items of a tuple or of a list
PyItems(sequence) ==
    IF sequence # <<>> /\ sequence[Len(sequence)] = ListMark
    THEN SubSeq(sequence, 1, Len(sequence) - 1)
    ELSE sequence

\* the keys of SettingsManager.settings that are modelled, in the dict's order
SettingsKeys == <<"show_guidance", "angles", "angles_enabled">>

\* json.dump: an int becomes a number, written digit for digit
dump_number(n) == [json |-> "number", value |-> n]

\* json.dump: a tuple and a list both become an array
dump_array(sequence) ==
    LET items == PyItems(sequence)
    IN  [json |-> "array", items |-> [i \in 1..Len(items) |-> dump_number(items[i])]]

\* json.dump: True and False become true and false
dump_bool(b) == [json |-> IF b THEN "true" ELSE "false"]

\* json.dump(self.settings, f): a dict becomes an object with the same keys
json_dump(stored) ==
    [json |-> "object",
     members |->
        [show_guidance |-> dump_bool(stored.show_guidance),
         angles |->
            [json |-> "object",
             members |-> [t \in DOMAIN stored.angles |-> dump_array(stored.angles[t])]],
         angles_enabled |->
            [json |-> "object",
             members |-> [t \in DOMAIN stored.angles_enabled |->
                             dump_bool(stored.angles_enabled[t])]]]]

load_number(j) == j.value

load_array_reversed(j) ==
    PyList([i \in 1..Len(j.items) |-> load_number(j.items[Len(j.items) + 1 - i])])

\* json.load: an array becomes a list
load_array(j) == PyList([i \in 1..Len(j.items) |-> load_number(j.items[i])])

load_bool(j) == j.json = "true"

\* json.load(f): an object becomes a dict with the same keys
json_load(document) ==
    [show_guidance |-> load_bool(document.members.show_guidance),
     angles |-> [t \in DOMAIN document.members.angles.members |->
                    load_array(document.members.angles.members[t])],
     angles_enabled |-> [t \in DOMAIN document.members.angles_enabled.members |->
                            load_bool(document.members.angles_enabled.members[t])]]

\* load_from_file, lines 99-101: set(key, value) for every key of the file that the
\* settings have, in the file's order; the settings and the observer calls that result
RECURSIVE load_keys(_, _, _, _)
load_keys(stored, registered, new_settings, keys) ==
    IF keys = <<>> THEN [settings |-> stored, calls |-> <<>>]
    ELSE LET key == Head(keys)
             value == new_settings[key]
             rest == load_keys(IF key \in DOMAIN stored
                               THEN set_settings(stored, key, value) ELSE stored,
                               registered, new_settings, Tail(keys))
         IN  [settings |-> rest.settings,
              calls |-> (IF key \in DOMAIN stored
                         THEN set_calls(stored, registered, key, value) ELSE <<>>)
                        \o rest.calls]

\* SettingsManager.save_to_file
SaveToFile ==
    /\ pc = "idle"
    /\ settings_file' = json_dump(settings)
    /\ saved_settings' = settings
    /\ notified' = <<>>
    /\ UNCHANGED side_vars
    /\ UNCHANGED report_vars
    /\ UNCHANGED frame_vars
    /\ UNCHANGED <<IDEAL_ANGLES, pose_data, rule_calls, emitted, recommendations,
                   in_range, adjustments, feedback_items, pc, observers>>
    /\ UNCHANGED angle_vars
    /\ UNCHANGED call_vars
    /\ UNCHANGED memo_vars
    /\ UNCHANGED camera_vars

\* SettingsManager.load_from_file on a file save_to_file wrote; without a file it
\* returns False at line 92 and nothing changes
LoadFromFile ==
    /\ pc = "idle"
    /\ settings_file # NoFile
    /\ LET new_settings == json_load(settings_file)
           loaded == load_keys(settings, observers, new_settings, SettingsKeys)
       IN  /\ settings' = loaded.settings
           /\ notified' = loaded.calls
    /\ pc' = "loaded"
    /\ UNCHANGED side_vars
    /\ UNCHANGED report_vars
    /\ UNCHANGED <<IDEAL_ANGLES, pose_data, rule_calls, emitted, recommendations,
                   in_range, adjustments, feedback_items, n_events, detected, skipped,
                   observers, settings_file, saved_settings>>
    /\ UNCHANGED angle_vars
    /\ UNCHANGED call_vars
    /\ UNCHANGED memo_vars
    /\ UNCHANGED camera_vars

\* load_from_file has returned True
LoadReturns ==
    /\ pc = "loaded"
    /\ pc' = "idle"
    /\ UNCHANGED side_vars
    /\ UNCHANGED report_vars
    /\ UNCHANGED frame_vars
    /\ UNCHANGED manager_vars
    /\ UNCHANGED angle_vars
    /\ UNCHANGED call_vars
    /\ UNCHANGED memo_vars
    /\ UNCHANGED camera_vars
    /\ UNCHANGED <<IDEAL_ANGLES, pose_data, rule_calls, emitted, recommendations,
                   in_range, adjustments, feedback_items>>

SaveLoadNext ==
    \/ OnApplyPreset
    \/ OnAngleMinChanged
    \/ OnAngleMaxChanged
    \/ SaveToFile
    \/ LoadFromFile
    \/ LoadReturns

SaveLoadSpec == Init /\ [][SaveLoadNext]_vars

\* the classification of a value against a mapping: in range, below with its deviation
\* or above with its deviation
Classification(angle_type, angle_value, ideal_ranges) ==
    LET min_val == Deg(ideal_ranges[angle_type][1])
        max_val == Deg(ideal_ranges[angle_type][2])
    IN  IF is_below(angle_value, min_val)
        THEN <<"below", deviation_below(angle_value, min_val)>>
        ELSE IF is_above(angle_value, max_val)
        THEN <<"above", deviation_above(angle_value, max_val)>>
        ELSE <<"in range", 0>>

\* C21: after the settings were saved with save_to_file and loaded back with
\* load_from_file, whatever was configured in between, the ideal-range mapping has
\* the angle-types it had when saved, and every value of every angle-type is
\* classified under it as under the mapping that was saved: the same answer of
\* is_in_range, the same class and the same deviation.
C21_RoundTrip ==
    pc = "loaded" =>
        /\ DOMAIN settings.angles = DOMAIN saved_settings.angles
        /\ \A t \in DOMAIN saved_settings.angles, v \in AngleValues :
               /\ is_in_range(t, v, settings.angles)
                    = is_in_range(t, v, saved_settings.angles)
               /\ Classification(t, v, settings.angles)
                    = Classification(t, v, saved_settings.angles)

\* C21 witness: a mapping with an edited neck range was saved, another mapping was
\* configured, and the load put the saved ranges back, as lists, notifying for "angles"
C21_Witness ==
    /\ pc = "loaded"
    /\ saved_settings.angles["neck_angle"] = <<50, 75>>
    /\ settings.angles["neck_angle"] = PyList(<<50, 75>>)
    /\ settings.angles # saved_settings.angles
    /\ \E i \in 1..Len(notified) : notified[i].key = "angles"


(***************************************************************************)
(* core/angle_calculator.py, calculate_angle.  Polar angles are modelled in  *)
(* thousandths of a degree, on points with whole-number pixel coordinates.   *)
(***************************************************************************)
\* the points of a call have their coordinates in 0..GridSize
GridSize == 2

\* one degree, in the units the polar angles are modelled in
MilliDegrees == 1000

HalfTurn == 180 * MilliDegrees

FullTurn == 360 * MilliDegrees

\* arctan(y / x) for y, x in 1..3, row y, column x
arctan_table ==
    <<  <<45000, 26565, 18435>>,
        <<63435, 45000, 33690>>,
        <<71565, 56310, 45000>>  >>

\* np.arctan2(y, x), converted to degrees: in (-180, 180], and 0 at the origin.  The
\* coordinates are ints, so y is never a negative zero and -180 is never returned.
arctan2(y, x) ==
    IF y = 0 THEN (IF x >= 0 THEN 0 ELSE HalfTurn)
    ELSE IF x = 0 THEN (IF y > 0 THEN HalfTurn \div 2 ELSE 0 - HalfTurn \div 2)
    ELSE LET acute == arctan_table[IF y > 0 THEN y ELSE 0 - y][IF x > 0 THEN x ELSE 0 - x]
             upper == IF x > 0 THEN acute ELSE HalfTurn - acute
         IN  IF y > 0 THEN upper ELSE 0 - upper

\* line 25, in degrees: the polar angle of c minus the polar angle of a, both seen from b
radians(a, b, c) == arctan2(c.y - b.y, c.x - b.x) - arctan2(a.y - b.y, a.x - b.x)

np_identity(x) == x

\* np.abs
np_abs(x) == IF x < 0 THEN 0 - x ELSE x

\* line 26
raw_angle(a, b, c) == np_abs(radians(a, b, c))

fold_never(angle) == angle

\* lines 28-29
fold(angle) == IF angle > HalfTurn THEN FullTurn - angle ELSE angle

calculate_angle(a, b, c) == fold(raw_angle(a, b, c))

GridPoints == {Point(x, y) : x \in 0..GridSize, y \in 0..GridSize}

\* calculate_angle(a, b, c) is called, and calculate_angle(c, b, a) next to it
CalculateAngle ==
    /\ pc = "idle"
    /\ \E a \in GridPoints, b \in GridPoints, c \in GridPoints :
           calculation' = [a |-> a, b |-> b, c |-> c,
                           raw |-> raw_angle(a, b, c),
                           angle |-> calculate_angle(a, b, c),
                           reverse |-> calculate_angle(c, b, a)]
    /\ pc' = "calculated"
    /\ UNCHANGED frame_vars
    /\ UNCHANGED side_vars
    /\ UNCHANGED report_vars
    /\ UNCHANGED manager_vars
    /\ UNCHANGED call_vars
    /\ UNCHANGED memo_vars
    /\ UNCHANGED camera_vars
    /\ UNCHANGED <<IDEAL_ANGLES, pose_data, rule_calls, emitted, recommendations,
                   in_range, adjustments, feedback_items>>

\* the call has returned; nothing of it is kept
NextCalculation ==
    /\ pc = "calculated"
    /\ pc' = "idle"
    /\ calculation' = NoCalculation
    /\ UNCHANGED frame_vars
    /\ UNCHANGED side_vars
    /\ UNCHANGED report_vars
    /\ UNCHANGED manager_vars
    /\ UNCHANGED call_vars
    /\ UNCHANGED memo_vars
    /\ UNCHANGED camera_vars
    /\ UNCHANGED <<IDEAL_ANGLES, pose_data, rule_calls, emitted, recommendations,
                   in_range, adjustments, feedback_items>>

AngleNext ==
    \/ CalculateAngle
    \/ NextCalculation

AngleSpec == Init /\ [][AngleNext]_vars

\* C22: for points a, b, c with a # b and c # b, calculate_angle(a, b, c) is between
\* 0 and 180 degrees; it is 360 degrees minus the absolute difference of the two polar
\* angles exactly when that difference is more than 180 degrees, and the difference
\* itself otherwise.
C22_Range ==
    (pc = "calculated" /\ calculation.a # calculation.b /\ calculation.c # calculation.b) =>
        /\ calculation.angle >= 0
        /\ calculation.angle <= HalfTurn
        /\ (calculation.raw > HalfTurn) => calculation.angle = FullTurn - calculation.raw
        /\ (calculation.raw <= HalfTurn) => calculation.angle = calculation.raw

\* C22 witness: the rays from b = (1, 1) to a = (0, 2) and to c = (0, 0) have the polar
\* angles 135 and -135 degrees; the difference of 270 degrees is folded to 90
C22_Witness ==
    /\ pc = "calculated"
    /\ calculation.a = Point(0, 2)
    /\ calculation.b = Point(1, 1)
    /\ calculation.c = Point(0, 0)
    /\ calculation.raw = 270 * MilliDegrees
    /\ calculation.angle = 90 * MilliDegrees

\* C23: for all points a, b, c, equal ones included, calculate_angle(a, b, c) equals
\* calculate_angle(c, b, a).
C23_Symmetric ==
    pc = "calculated" => calculation.angle = calculation.reverse

\* C23 witness: a call whose two polar angles differ, with the same angle both ways round
C23_Witness ==
    /\ pc = "calculated"
    /\ calculation.a # calculation.c
    /\ radians(calculation.a, calculation.b, calculation.c) < 0
    /\ radians(calculation.c, calculation.b, calculation.a) > 0
    /\ calculation.angle = calculation.reverse
    /\ calculation.angle > 0


(***************************************************************************)
(* An angle whose angle-type has no entry in IDEAL_ANGLES: analyze_pose,     *)
(* generate_summary, the two rule-engine functions and the overlay's         *)
(* get_color, utils/visualization.py.                                        *)
(***************************************************************************)
ForeignValues == {Deg(0), Deg(90), Deg(MaxAngle)}

ForeignPoses ==
    {[t \in DOMAIN p \cup {ForeignType} |-> IF t = ForeignType THEN v ELSE p[t]] :
        p \in SummaryPoses, v \in ForeignValues}

\* Visualizer.get_color, given what angle.is_in_range(IDEAL_ANGLES) answered
get_color(answer) == IF answer THEN "in_range" ELSE "out_of_range"

\* a pose that has an angle of the foreign type next to the detector's five
DetectForeignPose ==
    /\ pc = "idle"
    /\ \E p \in ForeignPoses : pose_data' = p
    /\ pc' = "pose"
    /\ UNCHANGED frame_vars
    /\ UNCHANGED side_vars
    /\ UNCHANGED report_vars
    /\ UNCHANGED manager_vars
    /\ UNCHANGED angle_vars
    /\ UNCHANGED call_vars
    /\ UNCHANGED memo_vars
    /\ UNCHANGED camera_vars
    /\ UNCHANGED <<IDEAL_ANGLES, rule_calls, emitted, recommendations, in_range,
                   adjustments, feedback_items>>

\* Visualizer.draw_angles: draw_angle_arc asks get_color for every angle of the pose
DrawAngleArcs ==
    /\ pc = "summary"
    /\ in_range' = [t \in DOMAIN pose_data |-> is_in_range(t, pose_data[t], IDEAL_ANGLES)]
    /\ pc' = "drawn"
    /\ UNCHANGED frame_vars
    /\ UNCHANGED side_vars
    /\ UNCHANGED report_vars
    /\ UNCHANGED manager_vars
    /\ UNCHANGED angle_vars
    /\ UNCHANGED call_vars
    /\ UNCHANGED memo_vars
    /\ UNCHANGED camera_vars
    /\ UNCHANGED <<IDEAL_ANGLES, pose_data, rule_calls, emitted, recommendations,
                   adjustments, feedback_items>>

\* the two rule-engine functions, called with any angle-type, the foreign one included
CallRuleFunctions ==
    /\ pc = "idle"
    /\ \E t \in AngleTypes \cup {ForeignType}, d \in {Deg(3), Deg(7), Deg(12)} :
           rule_calls' = <<rule_call("low", t, d), rule_call("high", t, d)>>
    /\ emitted' = Extend(rule_calls')
    /\ pc' = "rules"
    /\ UNCHANGED frame_vars
    /\ UNCHANGED side_vars
    /\ UNCHANGED report_vars
    /\ UNCHANGED manager_vars
    /\ UNCHANGED angle_vars
    /\ UNCHANGED call_vars
    /\ UNCHANGED memo_vars
    /\ UNCHANGED camera_vars
    /\ UNCHANGED <<IDEAL_ANGLES, pose_data, recommendations, in_range,
                   adjustments, feedback_items>>

NextForeignFrame ==
    /\ pc \in {"drawn", "rules"}
    /\ pose_data' = NoPose
    /\ rule_calls' = <<>>
    /\ emitted' = <<>>
    /\ recommendations' = <<>>
    /\ in_range' = NoPose
    /\ adjustments' = <<>>
    /\ feedback_items' = <<>>
    /\ summary' = NoSummary
    /\ pc' = "idle"
    /\ UNCHANGED frame_vars
    /\ UNCHANGED side_vars
    /\ UNCHANGED manager_vars
    /\ UNCHANGED angle_vars
    /\ UNCHANGED call_vars
    /\ UNCHANGED memo_vars
    /\ UNCHANGED camera_vars
    /\ UNCHANGED IDEAL_ANGLES

ForeignNext ==
    \/ DetectForeignPose
    \/ AnalyzePose
    \/ GenerateSummary
    \/ DrawAngleArcs
    \/ CallRuleFunctions
    \/ NextForeignFrame

ForeignSpec == Init /\ [][ForeignNext]_vars

\* the foreign angle of the pose got no rule call, no recommendation and no row
ForeignSkipped ==
    /\ \A i \in 1..Len(rule_calls) : rule_calls[i].angle_type # ForeignType
    /\ \A i \in 1..Len(recommendations) :
           ForeignType \notin Range(recommendations[i].angles_affected)
    /\ \A i \in 1..Len(summary.measurements) :
           summary.measurements[i].title # AngleTitle(ForeignType)
    /\ Len(summary.measurements) = Cardinality(DOMAIN pose_data) - 1

\* C24: an angle whose angle-type has no entry in the ideal-range mapping is a no-op:
\* analyze_pose makes no recommendation for it, generate_summary makes no row for it,
\* both rule-engine functions return no recommendation for it, and it is not
\* classified as out of range, the overlay's colour included.
C24_NoOp ==
    /\ (pc = "drawn" /\ ForeignType \in DOMAIN pose_data) =>
           /\ ForeignSkipped
           /\ get_color(in_range[ForeignType]) # "out_of_range"
    /\ pc = "rules" =>
           \A i \in 1..Len(rule_calls) :
               rule_calls[i].angle_type = ForeignType => rule_calls[i].result = <<>>

\* C24, the part that holds: the foreign angle is skipped by analyze_pose and by
\* generate_summary, and the rule-engine functions return nothing for its type
C24_Skipped ==
    /\ (pc \in {"summary", "drawn"} /\ ForeignType \in DOMAIN pose_data) => ForeignSkipped
    /\ pc = "rules" =>
           \A i \in 1..Len(rule_calls) :
               rule_calls[i].angle_type = ForeignType => rule_calls[i].result = <<>>

\* C24, the part that fails: is_in_range answers False for the foreign angle and
\* get_color returns the out-of-range colour for it
C24_DrawnOutOfRange ==
    (pc = "drawn" /\ ForeignType \in DOMAIN pose_data) =>
        /\ ~in_range[ForeignType]
        /\ get_color(in_range[ForeignType]) = "out_of_range"


(***************************************************************************)
(* analyze_pose, generate_feedback and generate_summary over a sequence of   *)
(* frames.  What a frame produced stays where it is until the next frame     *)
(* overwrites it; one frame is remembered, to compare a later frame of the   *)
(* same pose with it.                                                        *)
(***************************************************************************)
StatelessPoses ==
    {[neck_angle |-> n, shoulder_angle |-> Deg(DEFAULT_IDEAL_ANGLES["shoulder_angle"][1]),
      hip_angle |-> h, knee_angle |-> Deg(DEFAULT_IDEAL_ANGLES["knee_angle"][1]),
      elbow_angle |-> Deg(DEFAULT_IDEAL_ANGLES["elbow_angle"][1])] :
        n \in SummaryValues("neck_angle"), h \in SummaryValues("hip_angle")}

DetectStatelessPose ==
    /\ pc = "idle"
    /\ \E p \in StatelessPoses : pose_data' = p
    /\ pc' = "pose"
    /\ UNCHANGED frame_vars
    /\ UNCHANGED side_vars
    /\ UNCHANGED report_vars
    /\ UNCHANGED manager_vars
    /\ UNCHANGED angle_vars
    /\ UNCHANGED call_vars
    /\ UNCHANGED memo_vars
    /\ UNCHANGED camera_vars
    /\ UNCHANGED <<IDEAL_ANGLES, rule_calls, emitted, recommendations, in_range,
                   adjustments, feedback_items>>

\* the frame is done: its results are kept by the caller, nothing is reset
ReturnSummary ==
    /\ pc = "summary"
    /\ pc' = "idle"
    /\ \E remember \in BOOLEAN :
           first_call' =
               IF first_call.taken
               THEN [first_call EXCEPT !.between = @ \/ pose_data # first_call.pose]
               ELSE IF remember
               THEN [taken |-> TRUE, between |-> FALSE, pose |-> pose_data,
                     adjustments |-> adjustments, recommendations |-> recommendations,
                     feedback_items |-> feedback_items, summary |-> summary]
               ELSE first_call
    /\ UNCHANGED frame_vars
    /\ UNCHANGED side_vars
    /\ UNCHANGED report_vars
    /\ UNCHANGED manager_vars
    /\ UNCHANGED angle_vars
    /\ UNCHANGED call_vars
    /\ UNCHANGED camera_vars
    /\ UNCHANGED <<IDEAL_ANGLES, pose_data, rule_calls, emitted, recommendations,
                   in_range, adjustments, feedback_items>>

StatelessNext ==
    \/ DetectStatelessPose
    \/ AnalyzePose
    \/ GenerateSummary
    \/ ReturnSummary

StatelessSpec == Init /\ [][StatelessNext]_vars

\* the frame at hand has the pose of the remembered frame, and generate_feedback and
\* generate_summary were given the recommendation list they were given then
SameInputs ==
    /\ first_call.taken
    /\ pose_data = first_call.pose
    /\ adjustments = first_call.adjustments

SameResults ==
    /\ recommendations = first_call.recommendations
    /\ feedback_items = first_call.feedback_items
    /\ summary = first_call.summary

RangeNext ==
    \/ OnApplyPreset
    \/ OnAngleMinChanged
    \/ OnAngleMaxChanged

RangeSpec == Init /\ [][RangeNext]_vars

\* every range stored under 'angles' has its min not above its max
RangesOrdered ==
    \A t \in DOMAIN settings.angles : settings.angles[t][1] <= settings.angles[t][2]

\* C26: from the default settings, after any sequence of presets and of min and max
\* edits with any requested value, every range stored under 'angles' has min <= max; a
\* min edit stores the requested min, or the current max when the request is above it,
\* and a max edit stores the requested max, or the current min when the request is
\* below it, the other end staying as it was.
C26_MinNotAboveMax ==
    /\ RangesOrdered
    /\ [][/\ RangesOrdered'
          /\ \A t \in AngleTypes, v \in EditValues :
                LET current_min == settings.angles[t][1]
                    current_max == settings.angles[t][2]
                IN  /\ on_angle_min_changed(t, v) =>
                           settings'.angles[t] =
                               <<IF v > current_max THEN current_max ELSE v, current_max>>
                    /\ on_angle_max_changed(t, v) =>
                           settings'.angles[t] =
                               <<current_min, IF v < current_min THEN current_min ELSE v>>]_vars

\* C26 witness: a min edit to 120 of the neck range was clamped to the max, and a max
\* edit to 50 of the hip range was clamped to the min
C26_Witness ==
    /\ n_events = 2
    /\ settings.angles["neck_angle"] =
           <<DEFAULT_IDEAL_ANGLES["neck_angle"][2], DEFAULT_IDEAL_ANGLES["neck_angle"][2]>>
    /\ settings.angles["hip_angle"] =
           <<DEFAULT_IDEAL_ANGLES["hip_angle"][1], DEFAULT_IDEAL_ANGLES["hip_angle"][1]>>
    /\ DEFAULT_IDEAL_ANGLES["neck_angle"][2] < 120
    /\ DEFAULT_IDEAL_ANGLES["hip_angle"][1] > 50


(***************************************************************************)
(* core/pose_detector.py, _process_landmarks: one side per frame.            *)
(***************************************************************************)
\* C27: in every frame the landmark set and the five angles are built from one body
\* side: from the right side when the right side's summed visibility of shoulder, hip
\* and knee is strictly greater than the left side's, from the left side when the left
\* side's sum is strictly greater, and never from a mix of the two.
C27_OneSide ==
    pc = "landmarks" =>
        /\ right_visibility(landmarks) > left_visibility(landmarks) => UsesSide("right")
        /\ left_visibility(landmarks) > right_visibility(landmarks) => UsesSide("left")
        /\ UsesSide("right") \/ UsesSide("left")

\* C27 witness: the right side is strictly more visible, and the frame's points and
\* angles are the right side's and not the left side's
C27_Witness ==
    /\ pc = "landmarks"
    /\ right_visibility(landmarks) > left_visibility(landmarks)
    /\ UsesSide("right")
    /\ ~UsesSide("left")


(***************************************************************************)
(* ui/settings_panel.py and config/settings_manager.py: what the observers   *)
(* are told when a handler changes a stored value.                           *)
(***************************************************************************)
HandlerNext ==
    \/ OnApplyPreset
    \/ OnAngleMinChanged
    \/ OnAngleMaxChanged
    \/ OnAngleEnabledChanged
    \/ OnShowGuidanceChanged

HandlerSpec == Init /\ [][HandlerNext]_vars

\* the handler that just ran called every registered observer with the key and with the
\* value now stored under it
ObserversTold(key) ==
    \A i \in 1..Len(observers') :
        \E j \in 1..Len(notified') :
            notified'[j] = [observer |-> observers'[i], key |-> key, value |-> settings'[key]]

\* C28: whenever a settings-panel handler changes the value stored under a key, a
\* per-entry min or max edit of 'angles' and a toggle of one entry of 'angles_enabled'
\* included, every registered observer has been called with that key and the new value
\* when the handler returns: no stored value changes without a notification.
C28_ChangeNotified ==
    [][\A key \in DOMAIN settings : settings'[key] # settings[key] => ObserversTold(key)]_vars

\* C28, the part that holds: a handler that stores a new object under the key, a preset
\* or the show-guidance toggle, notifies every observer when the value changes
C28_ReplacedNotified ==
    [][/\ \A bike_id \in DOMAIN BIKE_TYPES :
              (on_apply_preset(bike_id) /\ settings'.angles # settings.angles) =>
                  ObserversTold("angles")
       /\ \A state \in CheckStates :
              (on_show_guidance_changed(state)
                 /\ settings'.show_guidance # settings.show_guidance) =>
                  ObserversTold("show_guidance")]_vars

\* C28, the part that fails: an edit in place changes the stored value and calls nobody
C28_EditedInPlaceSilently ==
    [][\A t \in AngleTypes :
          /\ \A v \in EditValues :
                (on_angle_min_changed(t, v) \/ on_angle_max_changed(t, v)) => notified' = <<>>
          /\ \A state \in CheckStates :
                on_angle_enabled_changed(t, state) => notified' = <<>>]_vars


(***************************************************************************)
(* config/settings_manager.py: set, add_observer and remove_observer called  *)
(* directly, with keys the settings have and with one they do not have.      *)
(***************************************************************************)
UnknownKey == "no_such_key"

\* the values set is called with, by key
SetValues(key) ==
    IF key = "show_guidance" THEN BOOLEAN
    ELSE IF key = "angles" THEN {DEFAULT_IDEAL_ANGLES, BIKE_TYPES["road"], BIKE_TYPES["mtb"]}
    ELSE IF key = "angles_enabled"
    THEN {[k \in DOMAIN DEFAULT_IDEAL_ANGLES |-> TRUE],
          [k \in DOMAIN DEFAULT_IDEAL_ANGLES |-> k # "knee_angle"]}
    ELSE {TRUE}

\* the callables that are registered as observers anywhere in the application
ObserverPool == Range(StartupObservers)

\* without the test of line 71
add_observer_again(registered, observer) == Append(registered, observer)

\* add_observer, lines 71-72
add_observer(registered, observer) ==
    IF observer \notin Range(registered) THEN Append(registered, observer) ELSE registered

\* remove_observer, lines 76-77: list.remove takes out the first occurrence
remove_observer(registered, observer) ==
    IF observer \in Range(registered)
    THEN LET first == CHOOSE i \in 1..Len(registered) :
                          /\ registered[i] = observer
                          /\ \A j \in 1..(i - 1) : registered[j] # observer
         IN  SubSeq(registered, 1, first - 1) \o SubSeq(registered, first + 1, Len(registered))
    ELSE registered

\* settings_manager.set(key, value)
CallSet ==
    /\ pc = "idle"
    /\ \E key \in Range(SettingsKeys) \cup {UnknownKey} :
        \E value \in SetValues(key) :
            /\ settings' = set_settings(settings, key, value)
            /\ notified' = set_calls(settings, observers, key, value)
            /\ last_set' = [key |-> key, value |-> value, before |-> settings,
                            registered |-> observers]
    /\ UNCHANGED side_vars
    /\ UNCHANGED report_vars
    /\ UNCHANGED angle_vars
    /\ UNCHANGED memo_vars
    /\ UNCHANGED camera_vars
    /\ UNCHANGED <<observers, settings_file, saved_settings>>
    /\ UNCHANGED <<IDEAL_ANGLES, pose_data, rule_calls, emitted, recommendations,
                   in_range, adjustments, feedback_items, pc, n_events, detected, skipped>>

\* settings_manager.add_observer(observer)
AddObserver ==
    /\ pc = "idle"
    /\ \E observer \in ObserverPool : observers' = add_observer(observers, observer)
    /\ notified' = <<>>
    /\ last_set' = NoSet
    /\ UNCHANGED frame_vars
    /\ UNCHANGED side_vars
    /\ UNCHANGED report_vars
    /\ UNCHANGED angle_vars
    /\ UNCHANGED memo_vars
    /\ UNCHANGED camera_vars
    /\ UNCHANGED <<settings_file, saved_settings>>
    /\ UNCHANGED <<IDEAL_ANGLES, pose_data, rule_calls, emitted, recommendations,
                   in_range, adjustments, feedback_items, pc>>

\* settings_manager.remove_observer(observer)
RemoveObserver ==
    /\ pc = "idle"
    /\ \E observer \in ObserverPool : observers' = remove_observer(observers, observer)
    /\ notified' = <<>>
    /\ last_set' = NoSet
    /\ UNCHANGED frame_vars
    /\ UNCHANGED side_vars
    /\ UNCHANGED report_vars
    /\ UNCHANGED angle_vars
    /\ UNCHANGED memo_vars
    /\ UNCHANGED camera_vars
    /\ UNCHANGED <<settings_file, saved_settings>>
    /\ UNCHANGED <<IDEAL_ANGLES, pose_data, rule_calls, emitted, recommendations,
                   in_range, adjustments, feedback_items, pc>>

ManagerNext ==
    \/ CallSet
    \/ AddObserver
    \/ RemoveObserver

ManagerSpec == Init /\ [][ManagerNext]_vars

\* the last operation on the manager was a direct call of set
SetCalled == last_set.key # NoSet.key

\* set was just called with a key the settings had and a value other than the stored one
SetChanged ==
    /\ last_set.key \in DOMAIN last_set.before
    /\ last_set.before[last_set.key] # last_set.value

\* the number of calls the observer got from the last operation
CallsTo(observer) ==
    Cardinality({j \in 1..Len(notified) : notified[j].observer = observer})

\* C29: set(key, value) changes the settings and notifies exactly when the key exists
\* and the value differs from the stored one.  Then the value is stored under the key,
\* the other keys keep their values, and each registered observer is called exactly
\* once with the key and the value, in registration order (no observer is registered
\* twice).  Otherwise the settings are as before, no key is created and no observer is
\* called.
C29_SetFrame ==
    /\ \A i, j \in 1..Len(observers) : observers[i] = observers[j] => i = j
    /\ SetCalled =>
          IF SetChanged
          THEN /\ settings[last_set.key] = last_set.value
               /\ DOMAIN settings = DOMAIN last_set.before
               /\ \A k \in DOMAIN settings \ {last_set.key} : settings[k] = last_set.before[k]
               /\ Len(notified) = Len(last_set.registered)
               /\ \A i \in 1..Len(notified) :
                      notified[i] = [observer |-> last_set.registered[i],
                                     key |-> last_set.key, value |-> last_set.value]
               /\ \A o \in Range(last_set.registered) : CallsTo(o) = 1
          ELSE /\ settings = last_set.before
               /\ DOMAIN settings = DOMAIN last_set.before
               /\ notified = <<>>

\* C29 witness: with the observers registered in the other order than at start-up, a set
\* of 'angles' to the road preset stored it and called the two observers in that order
C29_Witness ==
    /\ SetCalled
    /\ SetChanged
    /\ last_set.key = "angles"
    /\ settings.angles = BIKE_TYPES["road"]
    /\ last_set.registered = <<StartupObservers[2], StartupObservers[1]>>
    /\ Len(notified) = 2
    /\ notified[1].observer = StartupObservers[2]
    /\ notified[2].observer = StartupObservers[1]

\* C29 witness of the other case: a set of a key the settings do not have left them
\* as they were and called nobody
C29_WitnessUnknownKey ==
    /\ SetCalled
    /\ last_set.key = UnknownKey
    /\ settings = last_set.before
    /\ observers # <<>>
    /\ notified = <<>>


(***************************************************************************)
(* core/analyzer.py, BikeFitAnalyzer.run, with utils/camera.py,              *)
(* CameraManager.open_camera and select_camera.                              *)
(***************************************************************************)
\* select_camera returns 0 or one of the camera ids found: 0..MaxCamera
MaxCamera == 2

Cameras == 0..MaxCamera

\* open_camera(id): the capture when the camera opened, None when it did not
open_camera(id, opened) == IF opened THEN VideoCapture(id) ELSE NoCapture

\* the captures held after open_camera(id)
held_after_open(captures, id, opened) == IF opened THEN captures \cup {id} ELSE captures

\* lines 120-129: run is called; the camera opens and the loop is entered, or it does
\* not open and run returns at line 127
CallRun ==
    /\ run_pc = "not running"
    /\ \E id \in Cameras, opened \in BOOLEAN :
        /\ camera_id' = id
        /\ cap' = open_camera(id, opened)
        /\ held' = held_after_open(held, id, opened)
        /\ run_pc' = IF opened THEN "loop" ELSE "not opened"
    /\ \E mirror \in BOOLEAN : current_mirror' = mirror
    /\ UNCHANGED <<ui_cleaned, last_key, read_from>>
    /\ UNCHANGED frame_vars
    /\ UNCHANGED side_vars
    /\ UNCHANGED report_vars
    /\ UNCHANGED manager_vars
    /\ UNCHANGED angle_vars
    /\ UNCHANGED call_vars
    /\ UNCHANGED memo_vars
    /\ UNCHANGED <<IDEAL_ANGLES, pose_data, rule_calls, emitted, recommendations,
                   in_range, adjustments, feedback_items, pc>>

\* the finally clause, lines 167-171, for the capture at hand
released_in_finally(captures, capture) ==
    IF capture.none THEN captures ELSE captures \ {capture.camera}

\* lines 133-142: cap.read().  On None it raises AttributeError; a failed read breaks
\* the loop; both leave through the finally clause.  A frame is processed and shown.
ReadFrame ==
    /\ run_pc = "loop"
    /\ read_from' = [handle |-> IF cap.none THEN "None" ELSE "VideoCapture",
                     camera |-> cap.camera]
    /\ \E ret \in BOOLEAN :
        IF cap.none \/ ~ret
        THEN /\ run_pc' = IF cap.none THEN "raised" ELSE "returned"
             /\ held' = released_in_finally(held, cap)
             /\ ui_cleaned' = TRUE
        ELSE /\ run_pc' = "key"
             /\ UNCHANGED <<held, ui_cleaned>>
    /\ UNCHANGED <<cap, camera_id, current_mirror, last_key>>
    /\ UNCHANGED frame_vars
    /\ UNCHANGED side_vars
    /\ UNCHANGED report_vars
    /\ UNCHANGED manager_vars
    /\ UNCHANGED angle_vars
    /\ UNCHANGED call_vars
    /\ UNCHANGED memo_vars
    /\ UNCHANGED <<IDEAL_ANGLES, pose_data, rule_calls, emitted, recommendations,
                   in_range, adjustments, feedback_items, pc>>

\* lines 146-147: 'q' breaks the loop; the finally clause releases and cleans up
PressQ ==
    /\ run_pc = "key"
    /\ last_key' = "q"
    /\ run_pc' = "returned"
    /\ held' = released_in_finally(held, cap)
    /\ ui_cleaned' = TRUE
    /\ UNCHANGED <<cap, camera_id, current_mirror, read_from>>
    /\ UNCHANGED frame_vars
    /\ UNCHANGED side_vars
    /\ UNCHANGED report_vars
    /\ UNCHANGED manager_vars
    /\ UNCHANGED angle_vars
    /\ UNCHANGED call_vars
    /\ UNCHANGED memo_vars
    /\ UNCHANGED <<IDEAL_ANGLES, pose_data, rule_calls, emitted, recommendations,
                   in_range, adjustments, feedback_items, pc>>

\* lines 148-150: 'm' toggles the mirror
PressM ==
    /\ run_pc = "key"
    /\ last_key' = "m"
    /\ current_mirror' = ~current_mirror
    /\ run_pc' = "loop"
    /\ UNCHANGED <<cap, camera_id, held, ui_cleaned, read_from>>
    /\ UNCHANGED frame_vars
    /\ UNCHANGED side_vars
    /\ UNCHANGED report_vars
    /\ UNCHANGED manager_vars
    /\ UNCHANGED angle_vars
    /\ UNCHANGED call_vars
    /\ UNCHANGED memo_vars
    /\ UNCHANGED <<IDEAL_ANGLES, pose_data, rule_calls, emitted, recommendations,
                   in_range, adjustments, feedback_items, pc>>

\* lines 151-165: 'c' releases the capture and opens the selected camera; when that one
\* does not open, the previous camera is opened again, and cap is what that returned,
\* a capture or None; the loop goes on to its next iteration
PressC ==
    /\ run_pc = "key"
    /\ last_key' = "c"
    /\ \E new_camera_id \in Cameras, opened \in BOOLEAN, reopened \in BOOLEAN :
        LET released == held \ {cap.camera}
        IN  IF opened
            THEN /\ cap' = open_camera(new_camera_id, TRUE)
                 /\ held' = held_after_open(released, new_camera_id, TRUE)
                 /\ camera_id' = new_camera_id
            ELSE /\ cap' = open_camera(camera_id, reopened)
                 /\ held' = held_after_open(released, camera_id, reopened)
                 /\ UNCHANGED camera_id
    /\ run_pc' = "loop"
    /\ UNCHANGED <<current_mirror, ui_cleaned, read_from>>
    /\ UNCHANGED frame_vars
    /\ UNCHANGED side_vars
    /\ UNCHANGED report_vars
    /\ UNCHANGED manager_vars
    /\ UNCHANGED angle_vars
    /\ UNCHANGED call_vars
    /\ UNCHANGED memo_vars
    /\ UNCHANGED <<IDEAL_ANGLES, pose_data, rule_calls, emitted, recommendations,
                   in_range, adjustments, feedback_items, pc>>

\* any other key, or none within the wait: the next iteration
PressOther ==
    /\ run_pc = "key"
    /\ last_key' = "other"
    /\ run_pc' = "loop"
    /\ UNCHANGED <<cap, camera_id, current_mirror, held, ui_cleaned, read_from>>
    /\ UNCHANGED frame_vars
    /\ UNCHANGED side_vars
    /\ UNCHANGED report_vars
    /\ UNCHANGED manager_vars
    /\ UNCHANGED angle_vars
    /\ UNCHANGED call_vars
    /\ UNCHANGED memo_vars
    /\ UNCHANGED <<IDEAL_ANGLES, pose_data, rule_calls, emitted, recommendations,
                   in_range, adjustments, feedback_items, pc>>

CameraNext ==
    \/ CallRun
    \/ ReadFrame
    \/ PressQ
    \/ PressM
    \/ PressC
    \/ PressOther

CameraSpec == Init /\ [][CameraNext]_vars

\* run has left its loop: by a break, or by an exception
LoopLeft == run_pc \in {"returned", "raised"}

\* C30: in run, for every sequence of key presses and every outcome of open_camera, each
\* iteration of the loop reads from a capture, never from None: after a camera change
\* whose new camera does not open, the loop goes on with the previous camera opened
\* again, or it ends; and whenever the loop is left, no capture is held any more and the
\* UI has been cleaned up.
C30_NonNullHandle ==
    /\ read_from.handle # "None"
    /\ run_pc = "loop" => ~cap.none
    /\ run_pc # "raised"
    /\ LoopLeft => (held = {} /\ ui_cleaned)

\* C30, the part that holds: however the loop is left, no capture is held and the UI
\* has been cleaned up; and while run is in its loop, the capture at hand is the only
\* one held
C30_ExitsClean ==
    /\ LoopLeft => (held = {} /\ ui_cleaned)
    /\ run_pc \in {"loop", "key"} => held = (IF cap.none THEN {} ELSE {cap.camera})

\* C30, the part that fails: the loop is at its next iteration with cap = None only
\* after a 'c' whose two open_camera calls both failed, and the read raises
C30_NoneAfterFailedRevert ==
    /\ (run_pc = "loop" /\ cap.none) => last_key = "c"
    /\ run_pc = "raised" => (read_from.handle = "None" /\ last_key = "c" /\ cap.none)

=============================================================================
